---- MODULE Spec2Model ----
(***************************************************************************)
(* Kernel logging subsystem of xv6: per-CPU ring buffers of log records,   *)
(* a global sequence counter, the snapshot collector and the message       *)
(* formatter (klog.c, kept in src/xv6-public/klogdev.c from line 58 on).   *)
(***************************************************************************)
EXTENDS Integers, Sequences, FiniteSets, TLC

(***************************************************************************)
(* Bounds of the model.                                                    *)
(***************************************************************************)
\* number of literal/directive tokens after the padding of a template
MaxTail == 2
\* cores of the machine (param.h sets NCPU to 8)
NCPU == 2
\* slots of one ring (klog.h sets KLOG_BUF_SIZE to 256)
KLOG_BUF_SIZE == 2
\* threads of control that call into the logging subsystem
NPROC == 2
\* record() calls after klog_init
MaxRec == 2
\* klog_snapshot calls
MaxSnap == 1
\* klog_clear calls
MaxClear == 1
\* klog_get_dropped calls
MaxDropped == 1
\* largest max_entries passed to klog_snapshot
MaxBudget == 3
\* calls made one after another by SpecSeq: record(), klog_snapshot,
\* klog_clear, klog_get_dropped
MaxSeqRec == 2
MaxSeqSnap == 2
MaxSeqClear == 1
\* system calls (getklog, read) and record() calls made one after another
\* by SpecSys
MaxSysCalls == 2
MaxSysRec == 1
\* record() and klog_snapshot calls made one after another by SpecWrap
MaxWrapRec == 3
MaxWrapSnap == 1
\* largest size argument of the snprintf_int calls of SpecInt
MaxIntSize == 13

(***************************************************************************)
(* Program constants.                                                      *)
(***************************************************************************)
\* char buf[64] in klog_printf_internal
BUF_SIZE == 64
\* char msg[64] in struct klog_entry
MSG_SIZE == 64
\* char tmp[16] in snprintf_int / snprintf_hex
TMP_SIZE == 16
KLOG_DEBUG == 0
KLOG_INFO == 1
KLOG_WARN == 2
KLOG_ERROR == 3

\* the page size of the machine (PGSIZE of mmu.h)
PGSIZE == 4096
\* sizeof(struct klog_entry): six 4-byte words and msg[64]
ENTRY_SIZE == 88
\* slots of one ring as built (klog.h), for the counts of SpecPage
RING_SIZE == 256
\* the entries[] array of klogdev_read and the budget of its snapshot
DEV_BUDGET == 64
\* sys_read logs a read that returned at least this many bytes
READ_LOG_MIN == 64
\* the largest max_entries sys_getklog accepts
MAX_REQUEST == 1024

\* the null pointer passed for a %s argument (a value that is no string)
NullPtr == <<0>>
\* INT_MIN of the 32-bit int
INT_MIN == (-2147483647) - 1
\* INT_MAX of the 32-bit int
INT_MAX == -(INT_MIN + 1)

Min(a, b) == IF a < b THEN a ELSE b
Max(a, b) == IF a > b THEN a ELSE b

Take(s, n) == SubSeq(s, 1, Min(n, Len(s)))

Rep(c, n) == [k \in 1..n |-> c]

Reverse(s) == [k \in 1..Len(s) |-> s[Len(s) + 1 - k]]

(***************************************************************************)
(* Message formatting: snprintf_int, snprintf_hex and the format loop of   *)
(* klog_printf_internal.  A character is a one-character string, a C       *)
(* string is the sequence of its characters before the terminator.         *)
(***************************************************************************)
digits == <<"0", "1", "2", "3", "4", "5", "6", "7", "8", "9",
            "a", "b", "c", "d", "e", "f">>

\* val = -val on a 32-bit int: the negation of INT_MIN overflows and the
\* x86 negl instruction leaves INT_MIN in place
NegInt(val) == IF val = INT_MIN THEN INT_MIN ELSE -val

\* while(val > 0 && i < sizeof(tmp)){ tmp[i++] = '0' + (val % 10); val /= 10; }
\* tmp holds the digits least significant first
RECURSIVE IntDigitsLoop(_, _)
IntDigitsLoop(val, tmp) ==
  IF val > 0 /\ Len(tmp) < TMP_SIZE
    THEN IntDigitsLoop(val \div 10, Append(tmp, digits[(val % 10) + 1]))
    ELSE tmp

\* while(val > 0 && i < sizeof(tmp)){ tmp[i++] = digits[val & 0xf]; val >>= 4; }
RECURSIVE HexDigitsLoop(_, _)
HexDigitsLoop(val, tmp) ==
  IF val > 0 /\ Len(tmp) < TMP_SIZE
    THEN HexDigitsLoop(val \div 16, Append(tmp, digits[(val % 16) + 1]))
    ELSE tmp

\* while(i > 0 && j < size-1) buf[j++] = tmp[--i];
\* out holds the j characters written so far
CopyTmp(out, tmp, size) ==
  out \o Take(Reverse(tmp), Max(0, (size - 1) - Len(out)))

\* snprintf_int(buf, size, val): the characters written at buf; the return
\* value j is their number
snprintf_int(size, val) ==
  IF size <= 0 THEN <<>>
  ELSE LET neg == val < 0
           v   == IF neg THEN NegInt(val) ELSE val
           tmp == IF v = 0 THEN <<"0">> ELSE IntDigitsLoop(v, <<>>)
           sgn == IF neg /\ 0 < size - 1 THEN <<"-">> ELSE <<>>
       IN  CopyTmp(sgn, tmp, size)

\* snprintf_hex(buf, size, val)
snprintf_hex(size, val) ==
  IF size <= 2 THEN <<>>
  ELSE LET tmp == IF val = 0 THEN <<"0">> ELSE HexDigitsLoop(val, <<>>)
       IN  CopyTmp(<<"0", "x">>, tmp, size)

\* case 's': the string copied while i < sizeof(buf)-1
CopyStr(buf, arg) ==
  LET s == IF arg = NullPtr THEN <<"(", "n", "u", "l", "l", ")">> ELSE arg
  IN  buf \o Take(s, Max(0, (BUF_SIZE - 1) - Len(buf)))

\* the position after the run of ordinary characters that starts at fmt[k]
\* and is at most room characters long
RunEnd(fmt, k, room) ==
  LET stops == {n \in (k + 1)..(Len(fmt) + 1) :
                  n = Len(fmt) + 1 \/ fmt[n] = "%" \/ n = k + room}
  IN  CHOOSE n \in stops : \A m \in stops : n <= m

\* the format loop: k is the position in fmt (Len(fmt)+1 is the terminator),
\* a the position of ap in the argument list, buf the characters written,
\* i = Len(buf)
RECURSIVE FormatLoop(_, _, _, _)
FormatLoop(fmt, args, k, st) ==
  LET buf == st.buf
      i   == Len(buf)
  IN
  IF k > Len(fmt) \/ ~(i < BUF_SIZE - 1) THEN st
  ELSE IF fmt[k] # "%"
    THEN \* buf[i++] = *fmt; continue; taken for the whole run of characters
         \* up to the next '%', the terminator or a full buffer
         LET n == RunEnd(fmt, k, (BUF_SIZE - 1) - i)
         IN  FormatLoop(fmt, args, n, [st EXCEPT !.buf = buf \o SubSeq(fmt, k, n - 1)])
  ELSE IF k + 1 > Len(fmt) THEN st
  ELSE LET c == fmt[k + 1] IN
    CASE c = "d" ->
           FormatLoop(fmt, args, k + 2,
             [buf |-> buf \o snprintf_int(BUF_SIZE - i, args[st.a]), a |-> st.a + 1])
      [] c = "x" ->
           FormatLoop(fmt, args, k + 2,
             [buf |-> buf \o snprintf_hex(BUF_SIZE - i, args[st.a]), a |-> st.a + 1])
      [] c = "s" ->
           FormatLoop(fmt, args, k + 2,
             [buf |-> CopyStr(buf, args[st.a]), a |-> st.a + 1])
      [] c = "%" ->
           FormatLoop(fmt, args, k + 2, [st EXCEPT !.buf = Append(buf, "%")])
      [] OTHER ->
           FormatLoop(fmt, args, k + 2, [st EXCEPT !.buf = buf \o <<"%", c>>])

\* the characters in buf when the loop ends; buf[i] = 0 is then stored at
\* index i = Len of the result
FormatBuf(fmt, args) == FormatLoop(fmt, args, 1, [buf |-> <<>>, a |-> 1]).buf

\* for(i = 0; i < sizeof(entry->msg)-1 && buf[i]; i++) entry->msg[i] = buf[i];
\* entry->msg[i] = 0;
CopyMsg(buf) == Take(buf, MSG_SIZE - 1)

\* the message klog_printf_internal stores for a template and its arguments
StoredMsg(fmt, args) == CopyMsg(FormatBuf(fmt, args))

(***************************************************************************)
(* Templates as token lists, and the text a template is meant to render.   *)
(***************************************************************************)
RECURSIVE DecStr(_)
DecStr(n) == IF n < 10 THEN <<digits[n + 1]>>
             ELSE DecStr(n \div 10) \o <<digits[(n % 10) + 1]>>

RECURSIVE HexStr(_)
HexStr(n) == IF n < 16 THEN <<digits[n + 1]>>
             ELSE HexStr(n \div 16) \o <<digits[(n % 16) + 1]>>

Tokens ==
  {[k |-> "lit", c |-> <<"A">>], [k |-> "lit", c |-> <<"B", "C">>],
   [k |-> "d", v |-> 0], [k |-> "d", v |-> -7], [k |-> "d", v |-> 1234],
   [k |-> "x", v |-> 0], [k |-> "x", v |-> 255],
   [k |-> "s", s |-> NullPtr], [k |-> "s", s |-> <<"h", "i">>],
   [k |-> "s", s |-> Rep("z", 20)],
   [k |-> "pct"], [k |-> "unk", u |-> "q"]}

TokFmt(t) ==
  CASE t.k = "lit" -> t.c
    [] t.k = "d"   -> <<"%", "d">>
    [] t.k = "x"   -> <<"%", "x">>
    [] t.k = "s"   -> <<"%", "s">>
    [] t.k = "pct" -> <<"%", "%">>
    [] t.k = "unk" -> <<"%", t.u>>

TokArgs(t) ==
  CASE t.k \in {"d", "x"} -> <<t.v>>
    [] t.k = "s"          -> <<t.s>>
    [] OTHER              -> <<>>

TokText(t) ==
  CASE t.k = "lit" -> t.c
    [] t.k = "d"   -> IF t.v < 0 THEN <<"-">> \o DecStr(-t.v) ELSE DecStr(t.v)
    [] t.k = "x"   -> <<"0", "x">> \o HexStr(t.v)
    [] t.k = "s"   -> IF t.s = NullPtr THEN <<"(", "n", "u", "l", "l", ")">> ELSE t.s
    [] t.k = "pct" -> <<"%">>
    [] t.k = "unk" -> <<"%", t.u>>

RECURSIVE Flat(_, _)
Flat(F(_), toks) ==
  IF toks = <<>> THEN <<>> ELSE F(Head(toks)) \o Flat(F, Tail(toks))

TemplateFmt(toks)  == Flat(TokFmt, toks)
TemplateArgs(toks) == Flat(TokArgs, toks)
FullRendering(toks) == Flat(TokText, toks)

\* lengths of the literal padding that precedes the tail of a template
PadLens == {0, 40} \cup (58..63)

TailSeqs == UNION {[1..n -> Tokens] : n \in 0..MaxTail}

Templates == {<<[k |-> "lit", c |-> Rep("p", n)]>> \o t : n \in PadLens, t \in TailSeqs}

NoMsg == <<"?">>

\* the outcome of a call whose terminator store buf[i] = 0 fell behind buf
\* (i = 64) into a stack slot in use: the byte zeroed there belongs to
\* another local or to a saved register, and the call does not store the
\* message it rendered
Smashed == <<"!">>

(***************************************************************************)
(* The log state: cpu_logs, global_seq, the spinlocks, and the threads.    *)
(***************************************************************************)
CPUS  == 0..(NCPU - 1)
Procs == 1..NPROC
NoProc == 0
NoCpu == -1
\* no sequence number yet: a value the counter does not reach in any run
\* of the specifications below
NoSeq == INT_MIN

\* struct klog_entry without the two timestamp words, which no operation
\* of the subsystem reads
Entry(seq, cpu, pid, level, msg) ==
  [seq |-> seq, cpu |-> cpu, pid |-> pid, level |-> level, msg |-> msg]

\* a slot of the zero-initialised static array cpu_logs
ZeroEntry == Entry(0, 0, 0, 0, <<>>)

\* klog_printf("klog: logging subsystem initialized") of klog_init
InitFmtStr ==
  <<"k", "l", "o", "g", ":", " ", "l", "o", "g", "g", "i", "n", "g", " ",
    "s", "u", "b", "s", "y", "s", "t", "e", "m", " ",
    "i", "n", "i", "t", "i", "a", "l", "i", "z", "e", "d">>

\* the call site of record() in thread p: klog_printf(fmt, ...) logs at
\* KLOG_INFO, klog_printf_level(level, fmt, ...) at the given level
SiteOf(p) ==
  IF p % 2 = 1
    THEN [level |-> KLOG_INFO, fmt |-> <<"r", "%", "d">>, args |-> <<64>>]
    ELSE [level |-> KLOG_ERROR, fmt |-> <<"e", "%", "s">>, args |-> <<NullPtr>>]

\* max_entries values passed to klog_snapshot (a negative value behaves as 0:
\* count < max_entries never holds)
Budgets == {0} \cup ((MaxBudget - 1)..MaxBudget)

\* the increment of the counter is lost
SeqAfter_stuck(g) == g

\* seq = global_seq++ : the counter after the increment.  The 32 bits of a
\* uint u are kept as the integer with the same bits in two's complement:
\* u itself below 2^31, u - 2^32 from 2^31 on.  2^32 - 1 is -1, and its
\* successor is 0; the successor of 2^31 - 1 is 2^31, kept as INT_MIN.
SeqAfter(g) == IF g = INT_MAX THEN INT_MIN ELSE g + 1

\* a > b on two uint values kept this way: a value with the top bit set
\* (negative here) is above every value without it
UGt(a, b) == IF (a < 0) = (b < 0) THEN a > b ELSE a < 0

\* idx = log->head % KLOG_BUF_SIZE
SlotOf(pos) == pos % KLOG_BUF_SIZE

\* the range always starts at position 0 (no handling of a wrapped ring)
SnapStart_zero(head) == 0

\* start of the range klog_snapshot copies from a ring with cursor head
SnapStart(head) ==
  IF head > KLOG_BUF_SIZE THEN head - KLOG_BUF_SIZE ELSE 0

\* for(i = start; i < end && count < max_entries; i++)
\*   buf[count++] = log->entries[i % KLOG_BUF_SIZE];
RECURSIVE CopyLoop(_, _, _, _, _)
CopyLoop(log, i, end, buf, max_entries) ==
  IF i < end /\ Len(buf) < max_entries
    THEN CopyLoop(log, i + 1, end, Append(buf, log.entries[SlotOf(i)]), max_entries)
    ELSE buf

\* the copy takes the newest entries that fit into the budget
CopyRing_newest(log, buf, max_entries) ==
  CopyLoop(log, Max(SnapStart(log.head), log.head - (max_entries - Len(buf))),
           log.head, buf, max_entries)

\* the body of the per-CPU loop of klog_snapshot: buf after the copy
CopyRing(log, buf, max_entries) ==
  CopyLoop(log, SnapStart(log.head), log.head, buf, max_entries)

Swap(buf, j) == [buf EXCEPT ![j] = buf[j + 1], ![j + 1] = buf[j]]

\* for(j = 0; j < count - i - 1; j++) if(buf[j].seq > buf[j+1].seq) swap
\* (buf is indexed from 1 here, lim is count - i - 1)
RECURSIVE SortInner(_, _, _)
SortInner(buf, j, lim) ==
  IF j < lim
    THEN SortInner(IF UGt(buf[j + 1].seq, buf[j + 2].seq)
                     THEN Swap(buf, j + 1) ELSE buf,
                   j + 1, lim)
    ELSE buf

\* for(i = 0; i < count - 1; i++) ... for count >= 1
RECURSIVE SortOuter(_, _)
SortOuter(buf, i) ==
  IF i < Len(buf) - 1
    THEN SortOuter(SortInner(buf, 0, Len(buf) - i - 1), i + 1)
    ELSE buf

\* the sort is left out
SortBySeq_none(buf) == buf

\* the bubble sort of klog_snapshot on a buffer of count >= 1 entries
SortBySeq(buf) == SortOuter(buf, 0)

VARIABLES
  cpu_logs,    \* [c] -> head, dropped, entries of struct klog_cpu_buf
  ring_lock,   \* [c] -> holder of cpu_logs[c].lock, NoProc when free
  seq_lock,    \* holder of seq_lock
  global_seq,  \* the sequence counter
  proc,        \* [p] -> position and locals of thread p
  panicked,    \* the kernel has panicked
  calls,       \* history: the record() calls in invocation order (core, sequence
               \* number, calling process, returned or not)
  appended,    \* history: [c] -> entries appended to ring c since its last reset
  snaps,       \* history: the klog_snapshot calls that returned
  nops,        \* history: klog_snapshot / klog_clear / klog_get_dropped calls made
  quota,       \* the number of calls of each operation a behaviour may make
  tmpl, stored, \* a template and the message stored for it
  sys,         \* [p] -> position and locals of thread p inside a system call
  sysh,        \* history: the system calls that returned
  pg           \* a getklog request against rings of a given fill

\* the state of the system-call layer
sysvars == <<sys, sysh, pg>>

vars == <<cpu_logs, ring_lock, seq_lock, global_seq, proc, panicked,
          calls, appended, snaps, nops, quota, tmpl, stored, sys, sysh, pg>>

logvars == <<cpu_logs, ring_lock, seq_lock, global_seq, proc, panicked,
             calls, appended, snaps, nops, quota>>

\* a thread in user mode, outside every system call
UserMode ==
  [pc |-> "user", buf_addr |-> 0, req |-> 0, n |-> 0, max |-> 0, kbuf |-> 0,
   mark |-> 0, count |-> 0, i |-> 0, copied |-> 0, nok |-> 0,
   ents |-> <<>>, dst |-> <<>>, freed |-> 0]

\* no getklog request
NoPage == [buf_addr |-> 0, max_entries |-> 0, page |-> 0, head |-> <<>>,
           ret |-> -2]

\* the system-call layer at boot: no system call is in progress
SysIdle ==
  /\ sys = [p \in Procs |-> UserMode]
  /\ sysh = <<>>
  /\ pg = NoPage

\* no ring seen or visited yet by a klog_snapshot call
NoneSeen == [c \in CPUS |-> 0]

\* ncli is the depth of pushcli of the thread, counted from its value at the
\* entry of the call.
\* done is history of a klog_clear call: the sequence numbers of the
\* record() calls that had returned when it was invoked; gone is history of
\* a klog_snapshot call: nops.gone when it was invoked.
\* seen and at are history of a klog_snapshot call: the number of records
\* appended to each core when the call was invoked, and the cursor of each
\* ring when the call copied it
IdleProc ==
  [pc |-> "idle", cpu |-> NoCpu, ncli |-> 0, cpu_id |-> 0, idx |-> 0,
   level |-> 0, msg |-> <<>>, seq |-> NoSeq, call |-> 0,
   max |-> 0, buf |-> <<>>, total |-> 0, m0 |-> 0,
   seen |-> NoneSeen, at |-> NoneSeen, done |-> {}, gone |-> {}]

\* the state klog_init leaves: every cursor 0, then the first record,
\* written by the boot processor (CPU 0) with no process running
InitLog ==
  /\ cpu_logs = [c \in CPUS |->
       [head |-> IF c = 0 THEN 1 ELSE 0,
        dropped |-> 0,
        entries |-> [k \in 0..(KLOG_BUF_SIZE - 1) |->
           IF c = 0 /\ k = 0
             THEN Entry(0, 0, 0, KLOG_INFO, StoredMsg(InitFmtStr, <<>>))
             ELSE ZeroEntry]]]
  /\ ring_lock = [c \in CPUS |-> NoProc]
  /\ seq_lock = NoProc
  /\ global_seq = 1
  /\ proc = [p \in Procs |-> IdleProc]
  /\ panicked = FALSE
  /\ calls = <<[cpu |-> 0, seq |-> 0, lo |-> NoSeq, done |-> TRUE, pid |-> 0]>>
  /\ appended = [c \in CPUS |->
       IF c = 0 THEN <<Entry(0, 0, 0, KLOG_INFO, StoredMsg(InitFmtStr, <<>>))>>
       ELSE <<>>]
  /\ snaps = <<>>
  /\ nops = [snapshot |-> 0, clear |-> 0, dropped |-> 0, gone |-> {}]

Init ==
  /\ InitLog
  /\ SysIdle
  /\ quota = [record |-> MaxRec, snapshot |-> MaxSnap,
              clear |-> MaxClear, dropped |-> MaxDropped]
  /\ tmpl = <<>>
  /\ stored = NoMsg

\* cores on which no thread runs with interrupts disabled
FreeCpus == {c \in CPUS : \A q \in Procs : proc[q].cpu # c}

\* record() or klog_clear() calls in progress
WriterPcs == {"r_acquire", "r_seq_acquire", "r_seq_inc", "r_fill",
              "c_pushcli", "c_xchg", "c_reset"}
WritersActive == {q \in Procs : proc[q].pc \in WriterPcs}

\* the largest sequence number of a record() call that has returned
MaxDoneSeq ==
  LET done == {calls[k].seq : k \in {j \in 1..Len(calls) : calls[j].done}}
  IN  CHOOSE m \in done : \A n \in done : n <= m

\* the number of record() and klog_clear() calls invoked so far
Stamp == Len(calls) + nops.clear

(***************************************************************************)
(* record(): klog_printf / klog_printf_level -> klog_printf_internal       *)
(***************************************************************************)
\* cpuid() is read before pushcli(): the thread is moved to another core
\* between the two
RecordCall_unpinned(p, site) ==
  /\ ~panicked
  /\ proc[p].pc = "idle"
  /\ \E c \in FreeCpus : \E d \in CPUS :
       /\ proc' = [proc EXCEPT ![p] =
            [@ EXCEPT !.pc = "r_acquire", !.cpu = c, !.ncli = @ + 1, !.cpu_id = d,
                      !.level = site.level,
                      !.msg = StoredMsg(site.fmt, site.args),
                      !.call = Len(calls) + 1]]
       /\ calls' = Append(calls,
            [cpu |-> c, seq |-> NoSeq, lo |-> MaxDoneSeq, done |-> FALSE, pid |-> p])
  /\ UNCHANGED <<cpu_logs, ring_lock, seq_lock, global_seq, panicked,
                 appended, snaps, nops, quota, tmpl, stored, sysvars>>

\* klog_printf_internal(level, fmt, ap) up to the end of the format loop:
\* pushcli(); cpu_id = cpuid(); pid; the message formatted into buf.
\* cpuid() is the index of the running core, so the early return for
\* cpu_id outside 0..NCPU-1 is never taken.
RecordCall(p, site) ==
  /\ ~panicked
  /\ proc[p].pc = "idle"
  /\ \E c \in FreeCpus :
       /\ proc' = [proc EXCEPT ![p] =
            [@ EXCEPT !.pc = "r_acquire", !.cpu = c, !.ncli = @ + 1, !.cpu_id = c,
                      !.level = site.level,
                      !.msg = StoredMsg(site.fmt, site.args),
                      !.call = Len(calls) + 1]]
       /\ calls' = Append(calls,
            [cpu |-> c, seq |-> NoSeq, lo |-> MaxDoneSeq, done |-> FALSE, pid |-> p])
  /\ UNCHANGED <<cpu_logs, ring_lock, seq_lock, global_seq, panicked,
                 appended, snaps, nops, quota, tmpl, stored, sysvars>>

\* klog_printf(fmt, ...) / klog_printf_level(level, fmt, ...) at the call
\* site of thread p
KlogPrintf(p) ==
  /\ Len(calls) < quota.record + 1
  /\ RecordCall(p, SiteOf(p))

\* acquire(&log->lock); idx = log->head % KLOG_BUF_SIZE
RecAcquire(p) ==
  /\ ~panicked
  /\ proc[p].pc = "r_acquire"
  /\ ring_lock[proc[p].cpu_id] = NoProc
  /\ ring_lock' = [ring_lock EXCEPT ![proc[p].cpu_id] = p]
  /\ proc' = [proc EXCEPT ![p] =
       [@ EXCEPT !.pc = "r_seq_acquire", !.ncli = @ + 1,
                 !.idx = SlotOf(cpu_logs[proc[p].cpu_id].head)]]
  /\ UNCHANGED <<cpu_logs, seq_lock, global_seq, panicked,
                 calls, appended, snaps, nops, quota, tmpl, stored, sysvars>>

\* next_seq: acquire(&seq_lock)
RecSeqAcquire(p) ==
  /\ ~panicked
  /\ proc[p].pc = "r_seq_acquire"
  /\ seq_lock = NoProc
  /\ seq_lock' = p
  /\ proc' = [proc EXCEPT ![p] = [@ EXCEPT !.pc = "r_seq_inc", !.ncli = @ + 1]]
  /\ UNCHANGED <<cpu_logs, ring_lock, global_seq, panicked,
                 calls, appended, snaps, nops, quota, tmpl, stored, sysvars>>

\* the sequence number is taken from the core's own cursor
RecSeqInc_percpu(p) ==
  LET seq == cpu_logs[proc[p].cpu_id].head IN
  /\ ~panicked
  /\ proc[p].pc = "r_seq_inc"
  /\ global_seq' = SeqAfter(global_seq)
  /\ seq_lock' = NoProc
  /\ cpu_logs' = [cpu_logs EXCEPT
       ![proc[p].cpu_id].entries[proc[p].idx].seq = seq]
  /\ proc' = [proc EXCEPT ![p] =
       [@ EXCEPT !.pc = "r_fill", !.ncli = @ - 1, !.seq = seq]]
  /\ calls' = [calls EXCEPT ![proc[p].call].seq = seq]
  /\ UNCHANGED <<ring_lock, panicked, appended, snaps, nops, quota, tmpl, stored, sysvars>>

\* next_seq: seq = global_seq++; release(&seq_lock); return seq;
\* then entry->seq = seq
RecSeqInc(p) ==
  /\ ~panicked
  /\ proc[p].pc = "r_seq_inc"
  /\ global_seq' = SeqAfter(global_seq)
  /\ seq_lock' = NoProc
  /\ cpu_logs' = [cpu_logs EXCEPT
       ![proc[p].cpu_id].entries[proc[p].idx].seq = global_seq]
  /\ proc' = [proc EXCEPT ![p] =
       [@ EXCEPT !.pc = "r_fill", !.ncli = @ - 1, !.seq = global_seq]]
  /\ calls' = [calls EXCEPT ![proc[p].call].seq = global_seq]
  /\ UNCHANGED <<ring_lock, panicked, appended, snaps, nops, quota, tmpl, stored, sysvars>>

\* entry->cpu, pid, level, msg; log->head++; release(&log->lock);
\* popcli(); return
\* the append counts the entry it overwrites in log->dropped
RecFill_counting(p) ==
  LET c == proc[p].cpu_id
      e == Entry(proc[p].seq, c, p, proc[p].level, proc[p].msg)
  IN
  /\ ~panicked
  /\ proc[p].pc = "r_fill"
  /\ cpu_logs' = [cpu_logs EXCEPT ![c].entries[proc[p].idx] = e,
                                  ![c].head = @ + 1,
                                  ![c].dropped =
                                    IF cpu_logs[c].head >= KLOG_BUF_SIZE
                                      THEN @ + 1 ELSE @]
  /\ appended' = [appended EXCEPT ![c] = Append(@, e)]
  /\ ring_lock' = [ring_lock EXCEPT ![c] = NoProc]
  /\ calls' = [calls EXCEPT ![proc[p].call].done = TRUE]
  /\ proc' = [proc EXCEPT ![p] = [IdleProc EXCEPT !.ncli = proc[p].ncli - 2]]
  /\ UNCHANGED <<seq_lock, global_seq, panicked, snaps, nops, quota, tmpl, stored, sysvars>>

RecFill(p) ==
  LET c == proc[p].cpu_id
      e == Entry(proc[p].seq, c, p, proc[p].level, proc[p].msg)
  IN
  /\ ~panicked
  /\ proc[p].pc = "r_fill"
  /\ cpu_logs' = [cpu_logs EXCEPT ![c].entries[proc[p].idx] = e,
                                  ![c].head = @ + 1]
  /\ appended' = [appended EXCEPT ![c] = Append(@, e)]
  /\ ring_lock' = [ring_lock EXCEPT ![c] = NoProc]
  /\ calls' = [calls EXCEPT ![proc[p].call].done = TRUE]
  /\ proc' = [proc EXCEPT ![p] = [IdleProc EXCEPT !.ncli = proc[p].ncli - 2]]
  /\ UNCHANGED <<seq_lock, global_seq, panicked, snaps, nops, quota, tmpl, stored, sysvars>>

(***************************************************************************)
(* klog_snapshot(buf, max_entries)                                         *)
(***************************************************************************)
\* entry, and acquire(&cpu_logs[0].lock): pushcli() on the core the thread
\* runs on
KlogSnapshot(p, max_entries) ==
  /\ ~panicked
  /\ proc[p].pc = "idle"
  /\ nops.snapshot < quota.snapshot
  /\ nops' = [nops EXCEPT !.snapshot = @ + 1]
  /\ \E c \in FreeCpus :
       proc' = [proc EXCEPT ![p] =
         [@ EXCEPT !.pc = "s_xchg", !.cpu = c, !.ncli = @ + 1, !.cpu_id = 0,
                   !.max = max_entries, !.buf = <<>>,
                   !.m0 = IF WritersActive = {} THEN Stamp ELSE NoSeq,
                   !.seen = [k \in CPUS |-> Len(appended[k])],
                   !.gone = nops.gone]]
  /\ UNCHANGED <<cpu_logs, ring_lock, seq_lock, global_seq, panicked,
                 calls, appended, snaps, quota, tmpl, stored, sysvars>>

\* acquire(&log->lock) of a later core: pushcli()
SnapPushcli(p) ==
  /\ ~panicked
  /\ proc[p].pc = "s_pushcli"
  /\ \E c \in FreeCpus :
       proc' = [proc EXCEPT ![p] = [@ EXCEPT !.pc = "s_xchg", !.cpu = c, !.ncli = @ + 1]]
  /\ UNCHANGED <<cpu_logs, ring_lock, seq_lock, global_seq, panicked,
                 calls, appended, snaps, nops, quota, tmpl, stored, sysvars>>

\* the copy starts without waiting for the lock of the ring
SnapXchg_nolock(p) ==
  /\ ~panicked
  /\ proc[p].pc = "s_xchg"
  /\ ring_lock' = [ring_lock EXCEPT ![proc[p].cpu_id] = p]
  /\ proc' = [proc EXCEPT ![p] = [@ EXCEPT !.pc = "s_copy"]]
  /\ UNCHANGED <<cpu_logs, seq_lock, global_seq, panicked,
                 calls, appended, snaps, nops, quota, tmpl, stored, sysvars>>

\* acquire(&log->lock): the lock is taken once it is free
SnapXchg(p) ==
  /\ ~panicked
  /\ proc[p].pc = "s_xchg"
  /\ ring_lock[proc[p].cpu_id] = NoProc
  /\ ring_lock' = [ring_lock EXCEPT ![proc[p].cpu_id] = p]
  /\ proc' = [proc EXCEPT ![p] = [@ EXCEPT !.pc = "s_copy"]]
  /\ UNCHANGED <<cpu_logs, seq_lock, global_seq, panicked,
                 calls, appended, snaps, nops, quota, tmpl, stored, sysvars>>

\* the copy consumes the entries: the cursor of the ring is reset
SnapCopy_consume(p) ==
  LET c == proc[p].cpu_id IN
  /\ ~panicked
  /\ proc[p].pc = "s_copy"
  /\ c + 1 < NCPU
  /\ ring_lock' = [ring_lock EXCEPT ![c] = NoProc]
  /\ cpu_logs' = [cpu_logs EXCEPT ![c].head = 0]
  /\ appended' = [appended EXCEPT ![c] = <<>>]
  /\ proc' = [proc EXCEPT ![p] =
       [@ EXCEPT !.pc = "s_pushcli", !.cpu = NoCpu, !.ncli = @ - 1, !.cpu_id = c + 1,
                 !.buf = CopyRing(cpu_logs[c], proc[p].buf, proc[p].max),
                 !.at[c] = cpu_logs[c].head]]
  /\ UNCHANGED <<seq_lock, global_seq, panicked,
                 calls, snaps, nops, quota, tmpl, stored, sysvars>>

\* the range and the copy loop; release(&log->lock); cpu_id++
SnapCopy(p) ==
  LET c == proc[p].cpu_id IN
  /\ ~panicked
  /\ proc[p].pc = "s_copy"
  /\ c + 1 < NCPU
  /\ ring_lock' = [ring_lock EXCEPT ![c] = NoProc]
  /\ proc' = [proc EXCEPT ![p] =
       [@ EXCEPT !.pc = "s_pushcli", !.cpu = NoCpu, !.ncli = @ - 1, !.cpu_id = c + 1,
                 !.buf = CopyRing(cpu_logs[c], proc[p].buf, proc[p].max),
                 !.at[c] = cpu_logs[c].head]]
  /\ UNCHANGED <<cpu_logs, seq_lock, global_seq, panicked,
                 calls, appended, snaps, nops, quota, tmpl, stored, sysvars>>

\* klog_snapshot returns with the lock of the last ring still held
SnapSort_hold(p) ==
  LET c     == proc[p].cpu_id
      buf   == CopyRing(cpu_logs[c], proc[p].buf, proc[p].max)
      count == Len(buf)
  IN
  /\ ~panicked
  /\ proc[p].pc = "s_copy"
  /\ c + 1 = NCPU
  /\ UNCHANGED ring_lock
  /\ IF count = 0
       THEN /\ panicked' = TRUE
            /\ proc' = [proc EXCEPT ![p] =
                 [@ EXCEPT !.pc = "panic", !.cpu = NoCpu, !.ncli = 0]]
            /\ UNCHANGED snaps
       ELSE /\ snaps' = Append(snaps,
                 [proc |-> p, max |-> proc[p].max, ret |-> count,
                  buf |-> SortBySeq(buf), m0 |-> proc[p].m0,
                  seen |-> proc[p].seen, gone |-> proc[p].gone,
                  at |-> [proc[p].at EXCEPT ![c] = cpu_logs[c].head]])
            /\ proc' = [proc EXCEPT ![p] = [IdleProc EXCEPT !.ncli = proc[p].ncli]]
            /\ UNCHANGED panicked
  /\ UNCHANGED <<cpu_logs, seq_lock, global_seq,
                 calls, appended, nops, quota, tmpl, stored, sysvars>>

\* the copy from the last core, release(&log->lock), the bubble sort and
\* return count.  With count = 0 the unsigned loop bounds count - 1 and
\* count - i - 1 are 2^32 - 1: the loops compare and swap the memory behind
\* buf until an unmapped page is hit, and the trap taken in kernel mode
\* panics the kernel.
SnapSort(p) ==
  LET c     == proc[p].cpu_id
      buf   == CopyRing(cpu_logs[c], proc[p].buf, proc[p].max)
      count == Len(buf)
  IN
  /\ ~panicked
  /\ proc[p].pc = "s_copy"
  /\ c + 1 = NCPU
  /\ ring_lock' = [ring_lock EXCEPT ![c] = NoProc]
  /\ IF count = 0
       THEN /\ panicked' = TRUE
            /\ proc' = [proc EXCEPT ![p] =
                 [@ EXCEPT !.pc = "panic", !.cpu = NoCpu, !.ncli = 0]]
            /\ UNCHANGED snaps
       ELSE /\ snaps' = Append(snaps,
                 [proc |-> p, max |-> proc[p].max, ret |-> count,
                  buf |-> SortBySeq(buf), m0 |-> proc[p].m0,
                  seen |-> proc[p].seen, gone |-> proc[p].gone,
                  at |-> [proc[p].at EXCEPT ![c] = cpu_logs[c].head]])
            /\ proc' = [proc EXCEPT ![p] = [IdleProc EXCEPT !.ncli = proc[p].ncli - 1]]
            /\ UNCHANGED panicked
  /\ UNCHANGED <<cpu_logs, seq_lock, global_seq,
                 calls, appended, nops, quota, tmpl, stored, sysvars>>

(***************************************************************************)
(* klog_clear()                                                            *)
(***************************************************************************)
KlogClear(p) ==
  /\ ~panicked
  /\ proc[p].pc = "idle"
  /\ nops.clear < quota.clear
  /\ nops' = [nops EXCEPT !.clear = @ + 1]
  /\ \E c \in FreeCpus :
       proc' = [proc EXCEPT ![p] =
         [@ EXCEPT !.pc = "c_xchg", !.cpu = c, !.ncli = @ + 1, !.cpu_id = 0,
                   !.done = {calls[k].seq : k \in {j \in 1..Len(calls) : calls[j].done}}]]
  /\ UNCHANGED <<cpu_logs, ring_lock, seq_lock, global_seq, panicked,
                 calls, appended, snaps, quota, tmpl, stored, sysvars>>

ClearPushcli(p) ==
  /\ ~panicked
  /\ proc[p].pc = "c_pushcli"
  /\ \E c \in FreeCpus :
       proc' = [proc EXCEPT ![p] = [@ EXCEPT !.pc = "c_xchg", !.cpu = c, !.ncli = @ + 1]]
  /\ UNCHANGED <<cpu_logs, ring_lock, seq_lock, global_seq, panicked,
                 calls, appended, snaps, nops, quota, tmpl, stored, sysvars>>

ClearXchg(p) ==
  /\ ~panicked
  /\ proc[p].pc = "c_xchg"
  /\ ring_lock[proc[p].cpu_id] = NoProc
  /\ ring_lock' = [ring_lock EXCEPT ![proc[p].cpu_id] = p]
  /\ proc' = [proc EXCEPT ![p] = [@ EXCEPT !.pc = "c_reset"]]
  /\ UNCHANGED <<cpu_logs, seq_lock, global_seq, panicked,
                 calls, appended, snaps, nops, quota, tmpl, stored, sysvars>>

\* only the dropped counter is reset: the cursor and the entries stay
ClearReset_nohead(p) ==
  LET c == proc[p].cpu_id IN
  /\ ~panicked
  /\ proc[p].pc = "c_reset"
  /\ cpu_logs' = [cpu_logs EXCEPT ![c].dropped = 0]
  /\ ring_lock' = [ring_lock EXCEPT ![c] = NoProc]
  /\ proc' = [proc EXCEPT ![p] =
       IF c + 1 < NCPU
         THEN [@ EXCEPT !.pc = "c_pushcli", !.cpu = NoCpu, !.ncli = @ - 1, !.cpu_id = c + 1]
         ELSE [IdleProc EXCEPT !.ncli = proc[p].ncli - 1]]
  /\ nops' = IF c + 1 < NCPU THEN nops
             ELSE [nops EXCEPT !.gone = @ \cup proc[p].done]
  /\ UNCHANGED <<seq_lock, global_seq, panicked, calls, appended, snaps, quota,
                 tmpl, stored, sysvars>>

\* the lock of the ring is kept while the next ring is visited
ClearReset_keep(p) ==
  LET c == proc[p].cpu_id IN
  /\ ~panicked
  /\ proc[p].pc = "c_reset"
  /\ cpu_logs' = [cpu_logs EXCEPT ![c].head = 0, ![c].dropped = 0]
  /\ appended' = [appended EXCEPT ![c] = <<>>]
  /\ ring_lock' = [ring_lock EXCEPT ![c] = IF c + 1 < NCPU THEN p ELSE NoProc]
  /\ proc' = [proc EXCEPT ![p] =
       IF c + 1 < NCPU
         THEN [@ EXCEPT !.pc = "c_pushcli", !.cpu = NoCpu, !.ncli = @ - 1, !.cpu_id = c + 1]
         ELSE [IdleProc EXCEPT !.ncli = proc[p].ncli - 1]]
  /\ nops' = IF c + 1 < NCPU THEN nops
             ELSE [nops EXCEPT !.gone = @ \cup proc[p].done]
  /\ UNCHANGED <<seq_lock, global_seq, panicked, calls, snaps, quota, tmpl, stored, sysvars>>

\* log->head = 0; log->dropped = 0; release(&log->lock); cpu_id++
ClearReset(p) ==
  LET c == proc[p].cpu_id IN
  /\ ~panicked
  /\ proc[p].pc = "c_reset"
  /\ cpu_logs' = [cpu_logs EXCEPT ![c].head = 0, ![c].dropped = 0]
  /\ appended' = [appended EXCEPT ![c] = <<>>]
  /\ ring_lock' = [ring_lock EXCEPT ![c] = NoProc]
  /\ proc' = [proc EXCEPT ![p] =
       IF c + 1 < NCPU
         THEN [@ EXCEPT !.pc = "c_pushcli", !.cpu = NoCpu, !.ncli = @ - 1, !.cpu_id = c + 1]
         ELSE [IdleProc EXCEPT !.ncli = proc[p].ncli - 1]]
  /\ nops' = IF c + 1 < NCPU THEN nops
             ELSE [nops EXCEPT !.gone = @ \cup proc[p].done]
  /\ UNCHANGED <<seq_lock, global_seq, panicked, calls, snaps, quota, tmpl, stored, sysvars>>

(***************************************************************************)
(* klog_get_dropped()                                                      *)
(***************************************************************************)
KlogGetDropped(p) ==
  /\ ~panicked
  /\ proc[p].pc = "idle"
  /\ nops.dropped < quota.dropped
  /\ nops' = [nops EXCEPT !.dropped = @ + 1]
  /\ \E c \in FreeCpus :
       proc' = [proc EXCEPT ![p] =
         [@ EXCEPT !.pc = "g_xchg", !.cpu = c, !.ncli = @ + 1, !.cpu_id = 0,
                   !.total = 0,
                   !.m0 = IF WritersActive = {} THEN Stamp ELSE NoSeq]]
  /\ UNCHANGED <<cpu_logs, ring_lock, seq_lock, global_seq, panicked,
                 calls, appended, snaps, quota, tmpl, stored, sysvars>>

DroppedPushcli(p) ==
  /\ ~panicked
  /\ proc[p].pc = "g_pushcli"
  /\ \E c \in FreeCpus :
       proc' = [proc EXCEPT ![p] = [@ EXCEPT !.pc = "g_xchg", !.cpu = c, !.ncli = @ + 1]]
  /\ UNCHANGED <<cpu_logs, ring_lock, seq_lock, global_seq, panicked,
                 calls, appended, snaps, nops, quota, tmpl, stored, sysvars>>

DroppedXchg(p) ==
  /\ ~panicked
  /\ proc[p].pc = "g_xchg"
  /\ ring_lock[proc[p].cpu_id] = NoProc
  /\ ring_lock' = [ring_lock EXCEPT ![proc[p].cpu_id] = p]
  /\ proc' = [proc EXCEPT ![p] = [@ EXCEPT !.pc = "g_add"]]
  /\ UNCHANGED <<cpu_logs, seq_lock, global_seq, panicked,
                 calls, appended, snaps, nops, quota, tmpl, stored, sysvars>>

\* total += log->dropped; release(&log->lock); cpu_id++; return total
DroppedAdd(p) ==
  LET c == proc[p].cpu_id
      total == proc[p].total + cpu_logs[c].dropped
  IN
  /\ ~panicked
  /\ proc[p].pc = "g_add"
  /\ ring_lock' = [ring_lock EXCEPT ![c] = NoProc]
  /\ proc' = [proc EXCEPT ![p] =
       IF c + 1 < NCPU
         THEN [@ EXCEPT !.pc = "g_pushcli", !.cpu = NoCpu, !.ncli = @ - 1,
                        !.cpu_id = c + 1, !.total = total]
         ELSE [IdleProc EXCEPT !.total = total, !.ncli = proc[p].ncli - 1]]
  /\ UNCHANGED <<cpu_logs, seq_lock, global_seq, panicked,
                 calls, appended, snaps, nops, quota, tmpl, stored, sysvars>>

Step(p) ==
    \/ KlogPrintf(p)
    \/ RecAcquire(p)
    \/ RecSeqAcquire(p)
    \/ RecSeqInc(p)
    \/ RecFill(p)
    \/ \E max_entries \in Budgets : KlogSnapshot(p, max_entries)
    \/ SnapPushcli(p)
    \/ SnapXchg(p)
    \/ SnapCopy(p)
    \/ SnapSort(p)
    \/ KlogClear(p)
    \/ ClearPushcli(p)
    \/ ClearXchg(p)
    \/ ClearReset(p)
    \/ KlogGetDropped(p)
    \/ DroppedPushcli(p)
    \/ DroppedXchg(p)
    \/ DroppedAdd(p)

\* any thread takes a step
Next == \E p \in Procs : Step(p)

Spec == Init /\ [][Next]_vars

\* SpecLive: the behaviours of Spec in which no thread is held back for
\* ever: a thread runs on a core of its own or is resumed by the timer
\* interrupt scheduler, so a step it can take continuously is taken
SpecLive == Init /\ [][Next]_vars /\ \A p \in Procs : WF_vars(Step(p))

(***************************************************************************)
(* SpecSeq: one thread calls record(), klog_snapshot and klog_clear one     *)
(* after another, each call runs to its return before the next is made.    *)
(***************************************************************************)
InitSeq ==
  /\ InitLog
  /\ SysIdle
  /\ quota = [record |-> MaxSeqRec, snapshot |-> MaxSeqSnap,
              clear |-> MaxSeqClear, dropped |-> 0]
  /\ tmpl = <<>>
  /\ stored = NoMsg

\* the calling thread
SeqProc == CHOOSE p \in Procs : \A q \in Procs : p <= q

NextSeq ==
    \/ KlogPrintf(SeqProc)
    \/ RecAcquire(SeqProc)
    \/ RecSeqAcquire(SeqProc)
    \/ RecSeqInc(SeqProc)
    \/ RecFill(SeqProc)
    \/ \E max_entries \in Budgets : KlogSnapshot(SeqProc, max_entries)
    \/ SnapPushcli(SeqProc)
    \/ SnapXchg(SeqProc)
    \/ SnapCopy(SeqProc)
    \/ SnapSort(SeqProc)
    \/ KlogClear(SeqProc)
    \/ ClearPushcli(SeqProc)
    \/ ClearXchg(SeqProc)
    \/ ClearReset(SeqProc)

SpecSeq == InitSeq /\ [][NextSeq]_vars

(***************************************************************************)
(* SpecFmt: every template of Templates is formatted once.                 *)
(***************************************************************************)
InitFmt ==
  /\ InitLog
  /\ SysIdle
  /\ quota = [record |-> 0, snapshot |-> 0, clear |-> 0, dropped |-> 0]
  /\ tmpl \in Templates
  /\ stored = NoMsg

\* the message of one call: with the terminator stored inside buf it is
\* StoredMsg; a terminator stored at buf[64] is a write outside the array,
\* which either lands in unused stack and leaves the message as rendered,
\* or lands in a slot in use
FormatMsg ==
  LET buf == FormatBuf(TemplateFmt(tmpl), TemplateArgs(tmpl)) IN
  /\ stored = NoMsg
  /\ IF Len(buf) <= BUF_SIZE - 1
       THEN stored' = StoredMsg(TemplateFmt(tmpl), TemplateArgs(tmpl))
       ELSE stored' \in {CopyMsg(buf), Smashed}
  /\ UNCHANGED <<tmpl, logvars, sysvars>>

NextFmt == FormatMsg

SpecFmt == InitFmt /\ [][NextFmt]_vars

\* C10: the stored message is the first min(L, 63) characters of the full
\* rendering of the template
C10_TruncationKeepsPrefix ==
  stored # NoMsg =>
    stored = Take(FullRendering(tmpl), Min(Len(FullRendering(tmpl)), MSG_SIZE - 1))

(***************************************************************************)
(* The system-call layer: sys_getklog.                                     *)
(***************************************************************************)
\* curproc->sz, the size of the calling process in bytes
UserSize == 24 * PGSIZE

\* destination addresses a caller passes: below 0, the start of the address
\* space, a place two records before its end, and its end
BufAddrs == {-ENTRY_SIZE, 0, UserSize - 2 * ENTRY_SIZE, UserSize}

\* max_entries values a caller passes
Requests == {-1, 0, 1, MaxBudget, 47, 64, MAX_REQUEST, MAX_REQUEST + 1}

\* kalloc() returns a page (1) or 0
Pages == {0, 1}

\* the index of the first record whose copyout fails; NoFail: none fails
NoFail == -1
FailAts == {NoFail, 0, 1}

\* no klog_snapshot call was made by the system call
NoBudget == -1

\* the argument checks of sys_getklog without the upper limit on max_entries
ArgsValid_nolimit(buf_addr, max_entries, sz) ==
  /\ ~(max_entries <= 0)
  /\ ~(buf_addr < 0 \/ buf_addr >= sz)
  /\ ~(buf_addr + max_entries * ENTRY_SIZE > sz)

\* the argument checks of sys_getklog: none of the three returns is taken.
\* buf_addr is below sz <= 2^31 and max_entries at most 1024 in the third
\* check, so the unsigned 32-bit sum does not wrap.
ArgsValid(buf_addr, max_entries, sz) ==
  /\ ~(max_entries <= 0 \/ max_entries > MAX_REQUEST)
  /\ ~(buf_addr < 0 \/ buf_addr >= sz)
  /\ ~(buf_addr + max_entries * ENTRY_SIZE > sz)

\* int max_fit = PGSIZE / sizeof(struct klog_entry)
max_fit == PGSIZE \div ENTRY_SIZE

\* max_entries is handed to klog_snapshot as it came
Clamp_none(max_entries) == max_entries

\* if(max_entries > max_fit) max_entries = max_fit
Clamp(max_entries) == IF max_entries > max_fit THEN max_fit ELSE max_entries

\* the klog_snapshot calls of thread p that have returned
SnapsBy(p) == {k \in 1..Len(snaps) : snaps[k].proc = p}

\* the result of the last klog_snapshot call of thread p
LastSnapOf(p) ==
  snaps[CHOOSE k \in SnapsBy(p) : \A j \in SnapsBy(p) : j <= k]

\* system calls made so far
SysCallsMade == Len(sysh) + Cardinality({p \in Procs : sys[p].pc # "user"})

\* sys_getklog up to the call of klog_snapshot: the argument checks, kalloc()
\* and the limit of one page.  argint() succeeds: the two arguments lie on
\* the user stack of the caller.
SysGetklog(p, buf_addr, max_entries, page, failat) ==
  /\ ~panicked
  /\ sys[p].pc = "user" /\ proc[p].pc = "idle"
  /\ SysCallsMade < MaxSysCalls
  /\ IF ArgsValid(buf_addr, max_entries, UserSize) /\ page # 0
       THEN /\ sys' = [sys EXCEPT ![p] =
                 [UserMode EXCEPT !.pc = "gk_snap", !.buf_addr = buf_addr,
                                  !.req = max_entries, !.max = Clamp(max_entries),
                                  !.kbuf = page, !.nok = failat,
                                  !.mark = Cardinality(SnapsBy(p))]]
            /\ UNCHANGED sysh
       ELSE /\ failat = NoFail
            /\ sysh' = Append(sysh,
                 [op |-> "getklog", proc |-> p, buf_addr |-> buf_addr,
                  req |-> max_entries, page |-> page, budget |-> NoBudget,
                  ret |-> -1, count |-> 0, dst |-> <<>>, freed |-> 0])
            /\ UNCHANGED sys
  /\ UNCHANGED <<logvars, tmpl, stored, pg>>

\* count = klog_snapshot(kbuf, max_entries): the call
GkSnapshot(p) ==
  /\ sys[p].pc = "gk_snap"
  /\ Cardinality(SnapsBy(p)) = sys[p].mark
  /\ KlogSnapshot(p, sys[p].max)

\* count = klog_snapshot(kbuf, max_entries): the return
GkCollected(p) ==
  /\ ~panicked
  /\ sys[p].pc = "gk_snap" /\ proc[p].pc = "idle"
  /\ Cardinality(SnapsBy(p)) > sys[p].mark
  /\ sys' = [sys EXCEPT ![p] =
       [@ EXCEPT !.pc = "gk_copy", !.count = LastSnapOf(p).ret,
                 !.ents = LastSnapOf(p).buf, !.i = 0]]
  /\ UNCHANGED <<logvars, tmpl, stored, sysh, pg>>

\* the failure path returns -1 without kfree(kbuf)
GkCopyout_leak(p) ==
  LET i == sys[p].i IN
  /\ ~panicked
  /\ sys[p].pc = "gk_copy"
  /\ i < sys[p].count
  /\ IF i = sys[p].nok
       THEN /\ sysh' = Append(sysh,
                 [op |-> "getklog", proc |-> p, buf_addr |-> sys[p].buf_addr,
                  req |-> sys[p].req, page |-> sys[p].kbuf, budget |-> sys[p].max,
                  ret |-> -1, count |-> sys[p].count, dst |-> sys[p].dst,
                  freed |-> sys[p].freed])
            /\ sys' = [sys EXCEPT ![p] = UserMode]
       ELSE /\ sys' = [sys EXCEPT ![p] =
                 [@ EXCEPT !.dst = Append(@, sys[p].ents[i + 1]), !.i = i + 1]]
            /\ UNCHANGED sysh
  /\ UNCHANGED <<logvars, tmpl, stored, pg>>

\* one round of the copy loop of sys_getklog: copyout of kbuf[i], and on its
\* failure kfree(kbuf); return -1
GkCopyout(p) ==
  LET i == sys[p].i IN
  /\ ~panicked
  /\ sys[p].pc = "gk_copy"
  /\ i < sys[p].count
  /\ IF i = sys[p].nok
       THEN /\ sysh' = Append(sysh,
                 [op |-> "getklog", proc |-> p, buf_addr |-> sys[p].buf_addr,
                  req |-> sys[p].req, page |-> sys[p].kbuf, budget |-> sys[p].max,
                  ret |-> -1, count |-> sys[p].count, dst |-> sys[p].dst,
                  freed |-> sys[p].freed + 1])
            /\ sys' = [sys EXCEPT ![p] = UserMode]
       ELSE /\ sys' = [sys EXCEPT ![p] =
                 [@ EXCEPT !.dst = Append(@, sys[p].ents[i + 1]), !.i = i + 1]]
            /\ UNCHANGED sysh
  /\ UNCHANGED <<logvars, tmpl, stored, pg>>

\* the end of the copy loop: kfree(kbuf); return count
GkReturn(p) ==
  /\ ~panicked
  /\ sys[p].pc = "gk_copy"
  /\ sys[p].i = sys[p].count
  /\ sysh' = Append(sysh,
       [op |-> "getklog", proc |-> p, buf_addr |-> sys[p].buf_addr,
        req |-> sys[p].req, page |-> sys[p].kbuf, budget |-> sys[p].max,
        ret |-> sys[p].count, count |-> sys[p].count, dst |-> sys[p].dst,
        freed |-> sys[p].freed + 1])
  /\ sys' = [sys EXCEPT ![p] = UserMode]
  /\ UNCHANGED <<logvars, tmpl, stored, pg>>

(***************************************************************************)
(* The system-call layer: read on /dev/klog (sys_read, klogdev_read).      *)
(***************************************************************************)
\* byte counts a caller passes to read: none, less than a record, a record,
\* a record and a half, two records, more than the log holds
ReadLens == {0, ENTRY_SIZE - 4, ENTRY_SIZE, ENTRY_SIZE + 44, 2 * ENTRY_SIZE,
             DEV_BUDGET * ENTRY_SIZE}

\* klog_debug("read: %d bytes", result)
ReadSite(result) ==
  [level |-> KLOG_DEBUG,
   fmt |-> <<"r", "e", "a", "d", ":", " ", "%", "d", " ",
             "b", "y", "t", "e", "s">>,
   args |-> <<result>>]

\* the record() calls thread p has made
CallsBy(p) == {k \in 1..Len(calls) : calls[k].pid = p}

\* the history entry of a read that returns ret
ReadEntry(p, ret) ==
  [op |-> "read", proc |-> p, buf_addr |-> 0, req |-> sys[p].n,
   page |-> 0, budget |-> sys[p].max, ret |-> ret, count |-> sys[p].count,
   dst |-> sys[p].dst, freed |-> 0]

\* read(fd, dst, n) on /dev/klog up to the call of klog_snapshot in
\* klogdev_read; dst..dst+n lies in the address space of the caller
\* (argptr succeeded)
SysRead(p, n, failat) ==
  /\ ~panicked
  /\ sys[p].pc = "user" /\ proc[p].pc = "idle"
  /\ SysCallsMade < MaxSysCalls
  /\ sys' = [sys EXCEPT ![p] =
       [UserMode EXCEPT !.pc = "rd_snap", !.n = n, !.max = DEV_BUDGET,
                        !.nok = failat, !.mark = Cardinality(SnapsBy(p))]]
  /\ UNCHANGED <<logvars, tmpl, stored, sysh, pg>>

\* count = klog_snapshot(entries, 64): the call
RdSnapshot(p) ==
  /\ sys[p].pc = "rd_snap"
  /\ Cardinality(SnapsBy(p)) = sys[p].mark
  /\ KlogSnapshot(p, sys[p].max)

\* count = klog_snapshot(entries, 64): the return
RdCollected(p) ==
  /\ ~panicked
  /\ sys[p].pc = "rd_snap" /\ proc[p].pc = "idle"
  /\ Cardinality(SnapsBy(p)) > sys[p].mark
  /\ sys' = [sys EXCEPT ![p] =
       [@ EXCEPT !.pc = "rd_copy", !.count = LastSnapOf(p).ret,
                 !.ents = LastSnapOf(p).buf, !.i = 0, !.copied = 0]]
  /\ UNCHANGED <<logvars, tmpl, stored, sysh, pg>>

\* the condition of the copy loop of klogdev_read
RdMore(p) ==
  sys[p].i < sys[p].count /\ sys[p].copied + ENTRY_SIZE <= sys[p].n

\* one round of the copy loop of klogdev_read; a failed copyout returns -1,
\* which sys_read returns without logging
RdCopyout(p) ==
  LET i == sys[p].i IN
  /\ ~panicked
  /\ sys[p].pc = "rd_copy"
  /\ RdMore(p)
  /\ IF i = sys[p].nok
       THEN /\ sysh' = Append(sysh, ReadEntry(p, -1))
            /\ sys' = [sys EXCEPT ![p] = UserMode]
       ELSE /\ sys' = [sys EXCEPT ![p] =
                 [@ EXCEPT !.dst = Append(@, sys[p].ents[i + 1]), !.i = i + 1,
                           !.copied = @ + ENTRY_SIZE]]
            /\ UNCHANGED sysh
  /\ UNCHANGED <<logvars, tmpl, stored, pg>>

\* return copied, back in sys_read: if(result >= 64) the read is logged,
\* otherwise sys_read returns result
RdDone(p) ==
  /\ ~panicked
  /\ sys[p].pc = "rd_copy"
  /\ ~RdMore(p)
  /\ IF sys[p].copied >= READ_LOG_MIN
       THEN /\ sys' = [sys EXCEPT ![p] =
                 [@ EXCEPT !.pc = "rd_log", !.mark = Cardinality(CallsBy(p))]]
            /\ UNCHANGED sysh
       ELSE /\ sysh' = Append(sysh, ReadEntry(p, sys[p].copied))
            /\ sys' = [sys EXCEPT ![p] = UserMode]
  /\ UNCHANGED <<logvars, tmpl, stored, pg>>

\* klog_debug("read: %d bytes", result): the call
RdLog(p) ==
  /\ sys[p].pc = "rd_log"
  /\ Cardinality(CallsBy(p)) = sys[p].mark
  /\ RecordCall(p, ReadSite(sys[p].copied))

\* return result
RdReturn(p) ==
  /\ ~panicked
  /\ sys[p].pc = "rd_log" /\ proc[p].pc = "idle"
  /\ Cardinality(CallsBy(p)) > sys[p].mark
  /\ sysh' = Append(sysh, ReadEntry(p, sys[p].copied))
  /\ sys' = [sys EXCEPT ![p] = UserMode]
  /\ UNCHANGED <<logvars, tmpl, stored, pg>>

(***************************************************************************)
(* The system-call layer: write on /dev/klog (sys_write, klogdev_write).   *)
(***************************************************************************)
\* byte counts a caller passes to write
WriteLens == {0, 1, READ_LOG_MIN, 512}

\* the device takes the n bytes
klogdev_write_accept(n) == n

\* klogdev_write: return -1 whatever the buffer and the length
klogdev_write(n) == -1

\* write(fd, buf, n) on /dev/klog: result = filewrite(f, p, n), which is
\* the result of klogdev_write; a result of 64 or more takes the thread to
\* the klog_debug("write: %d bytes", result) call of sys_write ("wr_log"),
\* any other result is returned at once
SysWrite(p, n) ==
  LET result == klogdev_write(n) IN
  /\ ~panicked
  /\ sys[p].pc = "user" /\ proc[p].pc = "idle"
  /\ SysCallsMade < MaxSysCalls
  /\ IF result >= READ_LOG_MIN
       THEN /\ sys' = [sys EXCEPT ![p] =
                 [UserMode EXCEPT !.pc = "wr_log", !.n = n, !.copied = result]]
            /\ UNCHANGED sysh
       ELSE /\ sysh' = Append(sysh,
                 [op |-> "write", proc |-> p, buf_addr |-> 0, req |-> n,
                  page |-> 0, budget |-> NoBudget, ret |-> result,
                  count |-> 0, dst |-> <<>>, freed |-> 0])
            /\ UNCHANGED sys
  /\ UNCHANGED <<logvars, tmpl, stored, pg>>

\* a kernel event of thread p in user mode is logged (fork, exec, open)
UserRecord(p) ==
  /\ sys[p].pc = "user"
  /\ KlogPrintf(p)

(***************************************************************************)
(* SpecSys: one thread makes system calls and logs events one after        *)
(* another.                                                                *)
(***************************************************************************)
InitSys ==
  /\ InitLog
  /\ SysIdle
  /\ quota = [record |-> MaxSysRec, snapshot |-> MaxSysCalls,
              clear |-> 0, dropped |-> 0]
  /\ tmpl = <<>>
  /\ stored = NoMsg

NextSys ==
    \/ \E buf_addr \in BufAddrs, max_entries \in Requests,
          page \in Pages, failat \in FailAts :
          SysGetklog(SeqProc, buf_addr, max_entries, page, failat)
    \/ GkSnapshot(SeqProc)
    \/ SnapPushcli(SeqProc)
    \/ SnapXchg(SeqProc)
    \/ SnapCopy(SeqProc)
    \/ SnapSort(SeqProc)
    \/ GkCollected(SeqProc)
    \/ GkCopyout(SeqProc)
    \/ GkReturn(SeqProc)
    \/ \E n \in ReadLens, failat \in FailAts : SysRead(SeqProc, n, failat)
    \/ RdSnapshot(SeqProc)
    \/ RdCollected(SeqProc)
    \/ RdCopyout(SeqProc)
    \/ RdDone(SeqProc)
    \/ RdLog(SeqProc)
    \/ RdReturn(SeqProc)
    \/ \E n \in WriteLens : SysWrite(SeqProc, n)
    \/ UserRecord(SeqProc)
    \/ RecAcquire(SeqProc)
    \/ RecSeqAcquire(SeqProc)
    \/ RecSeqInc(SeqProc)
    \/ RecFill(SeqProc)

SpecSys == InitSys /\ [][NextSys]_vars

(***************************************************************************)
(* SpecWrap: one thread calls record() and klog_snapshot one after another *)
(* while the sequence counter passes 2^32 - 1.                             *)
(***************************************************************************)
\* the counter value of the one record the log holds in the first state:
\* 2^32 - MaxWrapRec
WrapStart == 0 - MaxWrapRec

\* the record the log holds in the first state
WrapEntry ==
  Entry(WrapStart, 0, SeqProc, SiteOf(SeqProc).level,
        StoredMsg(SiteOf(SeqProc).fmt, SiteOf(SeqProc).args))

\* the state after 2^32 - MaxWrapRec + 1 records, a klog_clear call before
\* the last of them: ring 0 holds the last record, the other rings nothing
InitWrap ==
  /\ cpu_logs = [c \in CPUS |->
       [head |-> IF c = 0 THEN 1 ELSE 0,
        dropped |-> 0,
        entries |-> [k \in 0..(KLOG_BUF_SIZE - 1) |->
           IF c = 0 /\ k = 0 THEN WrapEntry ELSE ZeroEntry]]]
  /\ ring_lock = [c \in CPUS |-> NoProc]
  /\ seq_lock = NoProc
  /\ global_seq = SeqAfter(WrapStart)
  /\ proc = [p \in Procs |-> IdleProc]
  /\ panicked = FALSE
  /\ calls = <<[cpu |-> 0, seq |-> WrapStart, lo |-> NoSeq, done |-> TRUE,
                pid |-> SeqProc]>>
  /\ appended = [c \in CPUS |-> IF c = 0 THEN <<WrapEntry>> ELSE <<>>]
  /\ snaps = <<>>
  /\ nops = [snapshot |-> 0, clear |-> 0, dropped |-> 0, gone |-> {}]
  /\ SysIdle
  /\ quota = [record |-> MaxWrapRec, snapshot |-> MaxWrapSnap,
              clear |-> 0, dropped |-> 0]
  /\ tmpl = <<>>
  /\ stored = NoMsg

NextWrap ==
    \/ KlogPrintf(SeqProc)
    \/ RecAcquire(SeqProc)
    \/ RecSeqAcquire(SeqProc)
    \/ RecSeqInc(SeqProc)
    \/ RecFill(SeqProc)
    \/ \E max_entries \in Budgets : KlogSnapshot(SeqProc, max_entries)
    \/ SnapPushcli(SeqProc)
    \/ SnapXchg(SeqProc)
    \/ SnapCopy(SeqProc)
    \/ SnapSort(SeqProc)

SpecWrap == InitWrap /\ [][NextWrap]_vars

(***************************************************************************)
(* SpecInt: snprintf_int is called once, with a size and a value.          *)
(***************************************************************************)
\* the values converted: both ends of the int range, their neighbours, and
\* values of one to four digits of either sign
IntVals ==
  {INT_MIN, INT_MIN + 1, -1234, -10, -7, -1, 0, 1, 9, 10, 1234, INT_MAX - 1,
   INT_MAX}

IntSizes == 0..MaxIntSize

\* the characters snprintf_int can leave at buf.  val = -val overflows for
\* INT_MIN, which the language leaves undefined: a build that negates with
\* negl keeps INT_MIN, fails the first val > 0 test and writes no digit; a
\* build that drops that first test, val being positive wherever the
\* negation did not overflow, writes the one character '0' + (val % 10),
\* which is '(' for INT_MIN, and then leaves the loop.
IntTexts(size, val) ==
  IF val = INT_MIN /\ size > 0
    THEN {snprintf_int(size, val),
          CopyTmp(IF 0 < size - 1 THEN <<"-">> ELSE <<>>, <<"(">>, size)}
    ELSE {snprintf_int(size, val)}

InitInt ==
  /\ InitLog
  /\ SysIdle
  /\ quota = [record |-> 0, snapshot |-> 0, clear |-> 0, dropped |-> 0]
  /\ tmpl \in [size : IntSizes, val : IntVals]
  /\ stored = NoMsg

SnprintfInt ==
  /\ stored = NoMsg
  /\ stored' \in IntTexts(tmpl.size, tmpl.val)
  /\ UNCHANGED <<tmpl, logvars, sysvars>>

NextInt == SnprintfInt

SpecInt == InitInt /\ [][NextInt]_vars

(***************************************************************************)
(* SpecPage: the number of records one getklog call returns, computed as   *)
(* sys_getklog and klog_snapshot compute it, for rings of the size of the  *)
(* build.                                                                  *)
(***************************************************************************)
\* the value of pg.ret before the call
NotCalled == -2

\* head cursors of a ring when getklog is called
PageHeads == {0, 1, 30, 47, 64, 300}

\* the positions klog_snapshot visits in a ring with cursor head:
\* end - start
RingRange(head) == IF head > RING_SIZE THEN RING_SIZE ELSE head

\* count after the copy loops of cores cpu_id .. NCPU - 1:
\* for(i = start; i < end && count < max_entries; i++) buf[count++] = ...
RECURSIVE SnapCount(_, _, _, _)
SnapCount(cpu_id, count, head, max_entries) ==
  IF cpu_id >= NCPU THEN count
  ELSE SnapCount(cpu_id + 1,
                 count + Min(RingRange(head[cpu_id]), Max(0, max_entries - count)),
                 head, max_entries)

\* count when the loop over the cores reaches core cpu_id
RECURSIVE CountBefore(_, _, _)
CountBefore(cpu_id, head, max_entries) ==
  IF cpu_id = 0 THEN 0
  ELSE LET count == CountBefore(cpu_id - 1, head, max_entries)
       IN  count + Min(RingRange(head[cpu_id - 1]), Max(0, max_entries - count))

\* the number of entries the copy loop takes from ring cpu_id, from
\* position start on: the loop ends at end or when count reaches max_entries
TakenFrom(cpu_id, head, max_entries) ==
  Min(RingRange(head[cpu_id]),
      Max(0, max_entries - CountBefore(cpu_id, head, max_entries)))

\* the value sys_getklog returns when every copyout succeeds
GetklogCount(buf_addr, max_entries, page, head) ==
  IF ~ArgsValid(buf_addr, max_entries, UserSize) \/ page = 0
    THEN -1
    ELSE SnapCount(0, 0, head, Clamp(max_entries))

\* ring 0 holds the record of klog_init: no code path calls klog_clear
InitPage ==
  /\ InitLog
  /\ sys = [p \in Procs |-> UserMode]
  /\ sysh = <<>>
  /\ quota = [record |-> 0, snapshot |-> 0, clear |-> 0, dropped |-> 0]
  /\ tmpl = <<>>
  /\ stored = NoMsg
  /\ pg \in [buf_addr : BufAddrs, max_entries : Requests, page : Pages,
              head : {h \in [CPUS -> PageHeads] : h[0] > 0},
              ret : {NotCalled}]

\* one getklog call
PageCall ==
  /\ pg.ret = NotCalled
  /\ pg' = [pg EXCEPT !.ret =
       GetklogCount(pg.buf_addr, pg.max_entries, pg.page, pg.head)]
  /\ UNCHANGED <<logvars, tmpl, stored, sys, sysh>>

NextPage == PageCall

SpecPage == InitPage /\ [][NextPage]_vars

(***************************************************************************)
(* Properties.                                                             *)
(***************************************************************************)
CallIds == 1..Len(calls)
Produced == {k \in CallIds : calls[k].seq # NoSeq}

SeqsOf(buf) == [k \in 1..Len(buf) |-> buf[k].seq]

Ascending(buf) ==
  \A i, j \in 1..Len(buf) : i < j => buf[i].seq < buf[j].seq

Range(f) == {f[k] : k \in DOMAIN f}

\* no record() or klog_clear() call was in progress when snapshot s was
\* invoked, and none has been invoked since
Quiet(s) == s.m0 # NoSeq /\ s.m0 = Stamp

SnapSet == Range(snaps)

\* the last Min(N, length) entries appended to ring c since its last reset
ValidOf(c) ==
  LET a == appended[c]
  IN  SubSeq(a, Len(a) - Min(Len(a), KLOG_BUF_SIZE) + 1, Len(a))

RECURSIVE ValidUpTo(_)
ValidUpTo(c) == IF c < 0 THEN <<>> ELSE ValidUpTo(c - 1) \o ValidOf(c)

\* the valid entries of all rings, core by core
AllValid == ValidUpTo(NCPU - 1)

\* C1: no two records ever produced carry the same sequence number
C1_SeqUnique ==
  \A a, b \in Produced : a # b => calls[a].seq # calls[b].seq

\* two record() calls on different cores hold their sequence numbers at the
\* same time, while a snapshot, a clear and a get_dropped call have been made
C1_Witness ==
  \E a, b \in Produced :
    /\ a # b /\ calls[a].cpu # calls[b].cpu
    /\ ~calls[a].done /\ ~calls[b].done
    /\ nops.snapshot > 0 /\ nops.clear > 0 /\ nops.dropped > 0

\* C2: of two record() calls on the same core, the one issued later in call
\* order carries the strictly larger sequence number
C2_SameCoreOrder ==
  \A a, b \in Produced :
    (a < b /\ calls[a].cpu = calls[b].cpu) => calls[a].seq < calls[b].seq

C2_Witness ==
  \E a, b \in Produced :
    /\ 1 < a /\ a < b /\ calls[a].cpu = calls[b].cpu
    /\ calls[a].done /\ calls[b].done

\* C3: a record() call that is invoked after another one has returned, on
\* any core, gets the strictly larger sequence number
C3_RealTimeOrder ==
  \A b \in Produced : calls[b].lo < calls[b].seq

C3_Witness ==
  \E a, b \in Produced :
    /\ 1 < a /\ a < b /\ calls[a].cpu # calls[b].cpu
    /\ calls[b].lo = calls[a].seq /\ calls[b].done

\* C4: the k records produced carry the k sequence numbers 0..k-1, and a
\* snapshot taken after all calls returned, with a budget of at least k and
\* nothing overwritten or cleared, returns all k in ascending order
C4_ContiguousAndCollected ==
  /\ Produced = CallIds => {calls[k].seq : k \in CallIds} = 0..(Len(calls) - 1)
  /\ \A s \in SnapSet :
       ( /\ Quiet(s)
         /\ nops.clear = 0
         /\ \A c \in CPUS : cpu_logs[c].head <= KLOG_BUF_SIZE
         /\ s.max >= Len(calls) )
       => SeqsOf(s.buf) = [k \in 1..Len(calls) |-> k - 1]

\* two record() calls overlapped on different cores and a later snapshot
\* returned all three records
C4_Witness ==
  \E s \in SnapSet :
    /\ Quiet(s) /\ nops.clear = 0 /\ s.max >= Len(calls)
    /\ \A c \in CPUS : cpu_logs[c].head <= KLOG_BUF_SIZE
    /\ Len(calls) = 3 /\ s.ret = 3
    /\ calls[2].cpu # calls[3].cpu
    /\ calls[3].lo < calls[2].seq

\* C5: the valid entries of a ring are those at positions
\* [max(0, head-N), head), kept at slot position mod N; after N+k appends to
\* one core and none to the others a snapshot with max_entries >= N returns
\* the last N records of that core in ascending order
C5_RingWindow ==
  /\ \A c \in CPUS :
       ring_lock[c] = NoProc =>
         /\ cpu_logs[c].head = Len(appended[c])
         /\ \A pos \in Max(0, cpu_logs[c].head - KLOG_BUF_SIZE)..(cpu_logs[c].head - 1) :
              cpu_logs[c].entries[pos % KLOG_BUF_SIZE] = appended[c][pos + 1]
  /\ \A s \in SnapSet : \A c \in CPUS :
       ( /\ Quiet(s)
         /\ s.max >= KLOG_BUF_SIZE
         /\ Len(appended[c]) > KLOG_BUF_SIZE
         /\ \A d \in CPUS \ {c} : Len(appended[d]) = 0 )
       => /\ s.ret = KLOG_BUF_SIZE
          /\ s.buf = SubSeq(appended[c], Len(appended[c]) - KLOG_BUF_SIZE + 1,
                            Len(appended[c]))
          /\ Ascending(s.buf)
          /\ \A k \in 1..(Len(appended[c]) - KLOG_BUF_SIZE) :
               appended[c][k] \notin Range(s.buf)

C5_Witness ==
  \E s \in SnapSet : \E c \in CPUS :
    /\ Quiet(s) /\ s.max >= KLOG_BUF_SIZE
    /\ Len(appended[c]) > KLOG_BUF_SIZE
    /\ \A d \in CPUS \ {c} : Len(appended[d]) = 0
    /\ s.ret = KLOG_BUF_SIZE

\* C6: when the valid entries of all cores exceed max_entries, the result
\* is the first max_entries valid entries in core order (all of the
\* lowest-indexed cores, then the oldest of the first core that does not
\* fit, nothing of later cores), sorted ascending by sequence number
C6_BudgetCoreOrder ==
  \A s \in SnapSet :
    (Quiet(s) /\ Len(AllValid) > s.max)
    => /\ s.ret = s.max
       /\ Range(s.buf) = Range(Take(AllValid, s.max))
       /\ Ascending(s.buf)

\* core 0 is returned in full, core 1 gives its oldest valid entry and
\* keeps a newer one back
C6_Witness ==
  \E s \in SnapSet :
    /\ Quiet(s) /\ Len(AllValid) > s.max
    /\ Range(ValidOf(0)) \subseteq Range(s.buf)
    /\ Len(ValidOf(1)) = 2
    /\ ValidOf(1)[1] \in Range(s.buf)
    /\ ValidOf(1)[2] \notin Range(s.buf)

\* C7: every klog_snapshot call that returns, whatever ran concurrently,
\* returns at most max_entries records in strictly ascending sequence order
C7_CountAndOrder ==
  \A s \in SnapSet :
    /\ s.ret <= s.max
    /\ s.ret = Len(s.buf)
    /\ Ascending(s.buf)

\* a snapshot that overlapped a record() call filled its budget with
\* entries of both cores, copied out of sequence order
C7_Witness ==
  \E s \in SnapSet :
    /\ ~Quiet(s)
    /\ s.ret = s.max /\ s.ret >= 3
    /\ \E i, j \in 1..s.ret : i < j /\ s.buf[i].cpu > s.buf[j].cpu

\* C8: two consecutive klog_snapshot(k) calls with no record() and no
\* klog_clear() call between them return the same records in the same order
C8_IdempotentRead ==
  \A i \in 1..(Len(snaps) - 1) :
    (snaps[i].max = snaps[i + 1].max /\ snaps[i].m0 = snaps[i + 1].m0)
    => (snaps[i].ret = snaps[i + 1].ret /\ snaps[i].buf = snaps[i + 1].buf)

C8_Witness ==
  \E i \in 1..(Len(snaps) - 1) :
    /\ snaps[i].max = snaps[i + 1].max /\ snaps[i].m0 = snaps[i + 1].m0
    /\ snaps[i].ret >= 2
    /\ \E j, k \in 1..snaps[i].ret : snaps[i].buf[j].cpu # snaps[i].buf[k].cpu

\* a step of klog_snapshot taken by thread p
SnapshotStep(p) ==
  /\ proc'[p] # proc[p]
  /\ \/ proc[p].pc \in {"s_pushcli", "s_xchg", "s_copy"}
     \/ (proc[p].pc = "idle" /\ proc'[p].pc = "s_xchg")

\* C9: no step of klog_snapshot changes a head cursor, a ring slot, a
\* dropped counter or the sequence counter
C9_SnapshotReadOnly ==
  [][\A p \in Procs : SnapshotStep(p) => (cpu_logs' = cpu_logs /\ global_seq' = global_seq)]_vars

\* a snapshot has returned entries of both rings
C9_Witness ==
  \E s \in SnapSet :
    /\ s.ret >= 2
    /\ \E j, k \in 1..s.ret : s.buf[j].cpu # s.buf[k].cpu
    /\ \A c \in CPUS : cpu_logs[c].head > 0

\* the positions of thread p while it runs record()
RecordPcs == {"r_acquire", "r_seq_acquire", "r_seq_inc", "r_fill"}

\* the rings differ at most in slot idx of ring c, cursors aside
OnlySlotChanged(c, idx) ==
  \A d \in CPUS : \A k \in 0..(KLOG_BUF_SIZE - 1) :
    (d # c \/ k # idx) => cpu_logs'[d].entries[k] = cpu_logs[d].entries[k]

HeadsUnchangedExcept(c) ==
  \A d \in CPUS :
    /\ cpu_logs'[d].dropped = cpu_logs[d].dropped
    /\ d # c => cpu_logs'[d].head = cpu_logs[d].head

\* C11: a record() call cannot fail: the step that allocates its sequence
\* number advances the counter by exactly 1, every call that returns has
\* advanced the cursor of its own core by exactly 1 and written the one slot
\* head % N of that core, and no step of the call changes anything else of
\* the log, whatever the fill level of the ring
C11_RecordAlwaysAppends ==
  [][\A p \in Procs :
       LET c == proc[p].cpu_id IN
       /\ (proc[p].pc = "idle" /\ proc'[p].pc = "r_acquire")
            => (cpu_logs' = cpu_logs /\ global_seq' = global_seq)
       /\ (proc[p].pc \in {"r_acquire", "r_seq_acquire"} /\ proc'[p] # proc[p])
            => (cpu_logs' = cpu_logs /\ global_seq' = global_seq)
       /\ (proc[p].pc = "r_seq_inc" /\ proc'[p] # proc[p])
            => /\ global_seq' = global_seq + 1
               /\ HeadsUnchangedExcept(c) /\ cpu_logs'[c].head = cpu_logs[c].head
               /\ OnlySlotChanged(c, SlotOf(cpu_logs[c].head))
               /\ ring_lock[c] = p
       /\ (proc[p].pc = "r_fill" /\ proc'[p] # proc[p])
            => /\ proc'[p].pc = "idle"
               /\ calls'[proc[p].call].done
               /\ global_seq' = global_seq
               /\ cpu_logs'[c].head = cpu_logs[c].head + 1
               /\ HeadsUnchangedExcept(c)
               /\ OnlySlotChanged(c, SlotOf(cpu_logs[c].head))
               /\ cpu_logs'[c].entries[SlotOf(cpu_logs[c].head)].seq = proc[p].seq
               /\ ring_lock[c] = p
    ]_vars

\* a record() call has returned after overwriting the oldest entry of a
\* full ring
C11_Witness ==
  \E k \in CallIds :
    /\ k > 1 /\ calls[k].done
    /\ cpu_logs[calls[k].cpu].head > KLOG_BUF_SIZE
    /\ cpu_logs[calls[k].cpu].entries[SlotOf(cpu_logs[calls[k].cpu].head - 1)].seq
         = calls[k].seq

\* the cursor positions of ring c that hold valid entries
ValidPositions(c) ==
  Max(0, cpu_logs[c].head - KLOG_BUF_SIZE)..(cpu_logs[c].head - 1)

\* C12: a thread that runs record() has interrupts disabled and stays on
\* the core it identified with cpuid(), and every valid entry of ring c has
\* cpu = c and carries the sequence number of a call that ran on core c
C12_PerCoreLocality ==
  /\ \A p \in Procs :
       proc[p].pc \in RecordPcs =>
         /\ proc[p].ncli >= 1
         /\ proc[p].cpu = proc[p].cpu_id
         /\ calls[proc[p].call].cpu = proc[p].cpu_id
  /\ \A c \in CPUS : \A pos \in ValidPositions(c) :
       LET e == cpu_logs[c].entries[SlotOf(pos)] IN
       /\ e.cpu = c
       /\ \E k \in Produced : calls[k].seq = e.seq /\ calls[k].cpu = c

\* a ring holds a valid entry written by one thread while another thread
\* fills a slot of another ring
C12_Witness ==
  /\ \A c \in CPUS : cpu_logs[c].head > 0
  /\ \E c, d \in CPUS : \E pos \in ValidPositions(c) : \E p \in Procs :
       /\ c # d
       /\ cpu_logs[c].entries[SlotOf(pos)].pid \notin {0, p}
       /\ proc[p].pc = "r_fill" /\ proc[p].cpu = d

\* the ring-buffer locks thread p holds
HeldRings(p) == {c \in CPUS : ring_lock[c] = p}

\* C13: a thread holds at most one ring-buffer lock; it holds seq_lock only
\* while it holds exactly one ring-buffer lock, so seq_lock is acquired
\* after and released before that lock; no ring-buffer lock is acquired by
\* a thread that holds seq_lock
C13_LockDiscipline ==
  [][\A p \in Procs :
       /\ Cardinality(HeldRings(p)') <= 1
       /\ seq_lock' = p => Cardinality(HeldRings(p)') = 1
       /\ \A c \in CPUS :
            /\ (ring_lock[c] # p /\ ring_lock'[c] = p) => (seq_lock # p /\ seq_lock' # p)
            /\ (ring_lock[c] = p /\ ring_lock'[c] # p) => (seq_lock # p /\ seq_lock' # p)
            /\ (seq_lock # p /\ seq_lock' = p) => (ring_lock[c] = p <=> ring_lock'[c] = p)
    ]_vars

\* a writer holds its ring lock and seq_lock while another thread holds
\* the lock of another ring
C13_Witness ==
  \E p, q \in Procs :
    /\ p # q /\ seq_lock = p
    /\ HeldRings(p) # {} /\ HeldRings(q) # {}
    /\ proc[q].pc \in {"s_copy", "c_reset", "g_add"}

\* thread p spins on a lock another thread holds
WaitsForLock(p) ==
  \/ /\ proc[p].pc \in {"r_acquire", "s_xchg", "c_xchg", "g_xchg"}
     /\ ring_lock[proc[p].cpu_id] # NoProc
  \/ /\ proc[p].pc = "r_seq_acquire"
     /\ seq_lock # NoProc

\* the threads with an operation in progress
Unfinished == {p \in Procs : proc[p].pc # "idle"}

\* no state in which every unfinished operation waits for a lock
NoLockDeadlock == Unfinished # {} => \E p \in Unfinished : ~WaitsForLock(p)

\* C14: no deadlock is reachable, and under fair scheduling every invoked
\* operation eventually returns
C14_AllCallsReturn ==
  /\ []NoLockDeadlock
  /\ \A p \in Procs : (proc[p].pc # "idle") ~> (proc[p].pc = "idle")

\* record e is, field for field, what one record() call that has returned
\* wrote: the boot record of klog_init or the record of a call of thread
\* e.pid at its call site
WrittenByOneCall(e) ==
  \E k \in CallIds :
    /\ calls[k].done
    /\ calls[k].seq = e.seq /\ calls[k].cpu = e.cpu /\ calls[k].pid = e.pid
    /\ IF k = 1
         THEN e.level = KLOG_INFO /\ e.msg = StoredMsg(InitFmtStr, <<>>)
         ELSE /\ e.pid \in Procs
              /\ e.level = SiteOf(e.pid).level
              /\ e.msg = StoredMsg(SiteOf(e.pid).fmt, SiteOf(e.pid).args)

\* C15: every record a klog_snapshot call returns equals, in seq, cpu, pid,
\* level and msg, a record written completely by one record() call,
\* whatever record() calls ran concurrently
C15_NoTornRecord ==
  \A s \in SnapSet : \A i \in 1..s.ret : WrittenByOneCall(s.buf[i])

\* a snapshot overlapped a record() call that has overwritten the oldest
\* entry of a full ring, and returned entries of that ring
C15_Witness ==
  \E s \in SnapSet : \E c \in CPUS :
    /\ ~Quiet(s)
    /\ cpu_logs[c].head > KLOG_BUF_SIZE
    /\ \E i \in 1..s.ret : s.buf[i].cpu = c /\ s.buf[i].pid # 0

\* the inputs on which sys_getklog is to fail: the request is not in
\* 1..1024, the address is outside [0, sz), the region of the requested
\* records ends past sz, or kalloc() returned 0
FailingCall(buf_addr, max_entries, page) ==
  \/ max_entries <= 0
  \/ max_entries > 1024
  \/ buf_addr < 0
  \/ buf_addr >= UserSize
  \/ buf_addr + max_entries * ENTRY_SIZE > UserSize
  \/ page = 0

\* C16: a getklog call with max_entries <= 0, max_entries > 1024, a
\* destination outside [0, sz), a destination region that ends past sz, or a
\* failed kalloc() returns -1, and it does so in a step that calls no
\* klog_snapshot (no ring lock is taken), writes no record to the
\* destination and leaves the whole log state as it was; no such call ever
\* gets past the checks.
C16_FailureWithoutEffect ==
  [][/\ \A p \in Procs :
          sys'[p].pc \in {"gk_snap", "gk_copy"}
            => ~FailingCall(sys'[p].buf_addr, sys'[p].req, sys'[p].kbuf)
     /\ /\ Len(sysh') = Len(sysh) + 1
        /\ sysh'[Len(sysh')].op = "getklog"
        /\ FailingCall(sysh'[Len(sysh')].buf_addr, sysh'[Len(sysh')].req,
                       sysh'[Len(sysh')].page)
        => /\ sysh'[Len(sysh')].ret = -1
           /\ sysh'[Len(sysh')].budget = NoBudget
           /\ sysh'[Len(sysh')].dst = <<>>
           /\ \A p \in Procs : sys[p].pc = "user" /\ sys'[p].pc = "user"
           /\ UNCHANGED logvars]_vars

\* two getklog calls have failed: one whose destination region ends past the
\* process size, one whose staging page could not be allocated; the log
\* holds a record besides the boot record
C16_Witness ==
  /\ \E k \in 1..Len(sysh) :
       /\ sysh[k].op = "getklog" /\ sysh[k].ret = -1
       /\ sysh[k].req \in 1..1024 /\ sysh[k].buf_addr \in 0..(UserSize - 1)
       /\ sysh[k].buf_addr + sysh[k].req * ENTRY_SIZE > UserSize
       /\ sysh[k].page # 0
  /\ \E k \in 1..Len(sysh) :
       /\ sysh[k].op = "getklog" /\ sysh[k].ret = -1
       /\ sysh[k].req \in 1..1024 /\ sysh[k].buf_addr \in 0..(UserSize - 1)
       /\ sysh[k].buf_addr + sysh[k].req * ENTRY_SIZE <= UserSize
       /\ sysh[k].page = 0
  /\ Len(calls) > 1

\* the records klog_snapshot finds in the rings of state pg
TotalValid ==
  LET RECURSIVE Sum(_)
      Sum(c) == IF c >= NCPU THEN 0
                ELSE Min(pg.head[c], RING_SIZE) + Sum(c + 1)
  IN Sum(0)

\* a getklog call whose destination is valid, whose staging page was
\* allocated and whose max_entries exceeds the records that fit in a page
OverPage ==
  /\ pg.max_entries \in 1..1024
  /\ pg.buf_addr \in 0..(UserSize - 1)
  /\ pg.buf_addr + pg.max_entries * ENTRY_SIZE <= UserSize
  /\ pg.page # 0
  /\ pg.max_entries * ENTRY_SIZE > PGSIZE

\* C17: a getklog call with a valid destination and a max_entries above
\* PGSIZE / sizeof(struct klog_entry) succeeds and returns the number of
\* valid records or the number of records that fit in the staging page,
\* whichever is smaller: the records returned never take more than PGSIZE
\* bytes.
C17_SilentPageLimit ==
  (pg.ret # NotCalled /\ OverPage)
    => /\ pg.ret >= 0
       /\ pg.ret * ENTRY_SIZE <= PGSIZE
       /\ \/ pg.ret = TotalValid
          \/ pg.ret < TotalValid /\ (pg.ret + 1) * ENTRY_SIZE > PGSIZE

\* getklog(buf, 1024) has returned with two rings that hold 30 records each:
\* the second ring is cut short by the page limit
C17_Witness ==
  /\ pg.ret # NotCalled /\ OverPage
  /\ pg.max_entries = 1024
  /\ pg.head[0] = 30 /\ pg.head[1] = 30
  /\ pg.ret < TotalValid
  /\ pg.ret > 30

\* C18: the page limit of getklog is 51 entries: getklog(buf, 64), called
\* with a valid destination while at least 64 records are valid, returns 51.
C18_PageHolds51 ==
  (/\ pg.ret # NotCalled
   /\ pg.max_entries = 64
   /\ pg.buf_addr \in 0..(UserSize - 1)
   /\ pg.buf_addr + pg.max_entries * ENTRY_SIZE <= UserSize
   /\ pg.page # 0
   /\ TotalValid >= 64)
    => pg.ret = 51

\* the reads on /dev/klog that have returned with every copyout successful
ReadsDone == {k \in 1..Len(sysh) : sysh[k].op = "read" /\ sysh[k].ret # -1}

\* what klogdev_read returns: ENTRY_SIZE bytes for each of the
\* min(c, floor(n / ENTRY_SIZE)) records of lowest seq in the snapshot, in
\* ascending order of seq
ReadReturnsWholeRecords ==
  \A k \in ReadsDone :
    LET h == sysh[k]
        m == Min(h.count, h.req \div ENTRY_SIZE)
    IN /\ h.budget = 64
       /\ h.ret = ENTRY_SIZE * m
       /\ h.ret <= h.req
       /\ Len(h.dst) = m
       /\ \A i \in 1..(m - 1) : h.dst[i].seq < h.dst[i + 1].seq

\* C19: a read of n >= 0 bytes on /dev/klog whose snapshot (budget 64)
\* returned c records and whose copies all succeeded returns exactly
\* 84 * min(c, floor(n / 84)) bytes, whole records in ascending order of
\* seq, never more than n bytes.
C19_ReadReturns84PerRecord ==
  \A k \in ReadsDone :
    LET h == sysh[k]
        m == Min(h.count, h.req \div 84)
    IN /\ h.budget = 64
       /\ h.ret = 84 * m
       /\ h.ret <= h.req
       /\ \A i \in 1..(Len(h.dst) - 1) : h.dst[i].seq < h.dst[i + 1].seq

\* the reads of one record (n = sizeof(struct klog_entry)) that delivered it
RecordReads == {k \in ReadsDone : sysh[k].req = ENTRY_SIZE /\ Len(sysh[k].dst) = 1}

\* C20: /dev/klog streams the log: of two reads of sizeof(struct klog_entry)
\* bytes, the later one returns a record of higher seq than the earlier one
\* (the k-th read returns the record of k-th smallest seq).
C20_ReadsStream ==
  \A j, k \in RecordReads :
    j < k => sysh[j].dst[1].seq < sysh[k].dst[1].seq

\* C21: every write on /dev/klog fails: whatever the length, the call
\* returns -1 and the step leaves every ring, every cursor, the locks and
\* the sequence counter as they were.
C21_WriteAlwaysFails ==
  [][/\ \A p \in Procs : sys'[p].pc # "wr_log"
     /\ (/\ Len(sysh') = Len(sysh) + 1
         /\ sysh'[Len(sysh')].op = "write")
          => /\ sysh'[Len(sysh')].ret = -1
             /\ cpu_logs' = cpu_logs
             /\ global_seq' = global_seq
             /\ UNCHANGED logvars]_vars

\* writes of 0 bytes and of 512 bytes have failed on a log that holds a
\* record besides that of klog_init
C21_Witness ==
  /\ \E k \in 1..Len(sysh) :
       sysh[k].op = "write" /\ sysh[k].req = 0 /\ sysh[k].ret = -1
  /\ \E k \in 1..Len(sysh) :
       sysh[k].op = "write" /\ sysh[k].req = 512 /\ sysh[k].ret = -1
  /\ Len(calls) > 1
  /\ global_seq > 1

\* the appends to ring c that took the slot of an entry still in the ring
Overwritten(c) == Max(0, cpu_logs[c].head - KLOG_BUF_SIZE)

\* the entries lost to overflow in all rings
TotalOverwritten ==
  LET RECURSIVE Sum(_)
      Sum(c) == IF c >= NCPU THEN 0 ELSE Overwritten(c) + Sum(c + 1)
  IN Sum(0)

\* thread p returns from klog_get_dropped in this step, and no record() or
\* klog_clear() call ran during the call or before it (klog_clear)
DroppedReturnsQuiet(p) ==
  /\ proc[p].pc = "g_add" /\ proc'[p].pc = "idle"
  /\ proc[p].m0 # NoSeq /\ proc[p].m0 = Stamp
  /\ nops.clear = 0

\* C22: dropped entries are tracked: as long as klog_clear was not called,
\* the dropped counter of a ring whose lock is free is the number of appends
\* that overwrote an entry of the ring, and klog_get_dropped() returns the
\* number of entries lost to overflow in all rings (k after N + k appends to
\* one core).
C22_DroppedTracked ==
  [][/\ \A c \in CPUS :
          (nops'.clear = 0 /\ ring_lock'[c] = NoProc)
            => cpu_logs'[c].dropped = Overwritten(c)'
     /\ \A p \in Procs :
          DroppedReturnsQuiet(p) => proc'[p].total = TotalOverwritten]_vars

C23_SameCoreContentionOnly ==
  \A p \in Procs :
    LET c == proc[p].cpu_id IN
    (proc[p].pc = "r_acquire" /\ ring_lock[c] # NoProc)
      => proc[ring_lock[c]].cpu = c

\* the copy loop of sys_getklog or of klogdev_read
CopyPcs == {"gk_copy", "rd_copy"}

\* C24: no locks during copyout: while thread p is in the copy loop of
\* getklog or of a /dev/klog read, it holds no ring lock and not the
\* sequence lock, and it is inside no klog call (interrupts are on).
C24_NoLocksDuringCopyout ==
  \A p \in Procs :
    sys[p].pc \in CopyPcs
      => /\ \A c \in CPUS : ring_lock[c] # p
         /\ seq_lock # p
         /\ proc[p].pc = "idle"
         /\ proc[p].ncli = 0

\* a /dev/klog read has copied one record out and has another to copy,
\* after a getklog call that copied two records
C24_Witness ==
  \E p \in Procs :
    /\ sys[p].pc = "rd_copy"
    /\ sys[p].i = 1 /\ sys[p].count > 1
    /\ \E k \in 1..Len(sysh) :
         sysh[k].op = "getklog" /\ Len(sysh[k].dst) = 2

\* C25: the cursor of every ring is monotonically increasing over the
\* public operations klog_printf, klog_printf_level, klog_snapshot,
\* klog_clear and klog_get_dropped: no step makes a head smaller, and a
\* ring changes only in a step of a record() call on its core.
C25_HeadMonotonic ==
  [][\A c \in CPUS :
       /\ cpu_logs'[c].head >= cpu_logs[c].head
       /\ cpu_logs'[c] # cpu_logs[c]
            => \E p \in Procs :
                 proc[p].pc \in RecordPcs /\ proc[p].cpu_id = c]_vars

\* the sequence numbers in the result of snapshot s
SeqSetOf(s) == {s.buf[i].seq : i \in 1..s.ret}

\* record() call j had returned when record() call k was invoked (its seq
\* was the largest of a returned call then), and the result of snapshot s
\* holds the record of k but not the record of j,
\* though the budget was not used up, klog_clear was never called and the
\* ring of j has not wrapped: s is the content of the log at no instant
BrokenCut(s, j, k) ==
  /\ calls[j].done /\ calls[k].done
  /\ calls[j].seq = calls[k].lo
  /\ calls[k].seq \in SeqSetOf(s)
  /\ calls[j].seq \notin SeqSetOf(s)
  /\ s.ret < s.max
  /\ nops.clear = 0
  /\ cpu_logs[calls[j].cpu].head <= KLOG_BUF_SIZE

\* C27: klog_snapshot takes no atomic cut of the log.  Its result can hold
\* a record and miss one that was appended before it; whenever it does, the
\* missing record is of a core visited earlier than the core of the record
\* it holds (the ring of the earlier core was copied before either append).
C27_CutBrokenInVisitOrder ==
  \A s \in SnapSet : \A j, k \in 1..Len(calls) :
    BrokenCut(s, j, k) => calls[j].cpu < calls[k].cpu

\* a snapshot of ample budget has returned the record of klog_init and a
\* record of core 1, but not the record of core 0 that was appended before
\* the call on core 1 began
C27_Witness ==
  \E s \in SnapSet : \E j, k \in 1..Len(calls) :
    /\ BrokenCut(s, j, k)
    /\ calls[j].cpu = 0 /\ calls[k].cpu = 1
    /\ calls[j].seq < calls[k].seq
    /\ 0 \in SeqSetOf(s)

\* the sum over all cores c of min(head_c, KLOG_BUF_SIZE)
ValidInRings ==
  LET RECURSIVE Sum(_)
      Sum(c) == IF c >= NCPU THEN 0
                ELSE Min(cpu_logs[c].head, KLOG_BUF_SIZE) + Sum(c + 1)
  IN Sum(0)

\* thread p takes the last step of a klog_snapshot call: the copy of the
\* last ring, the sort and the return
SnapshotEnds(p) ==
  /\ proc[p].pc = "s_copy" /\ proc[p].cpu_id = NCPU - 1
  /\ proc'[p] # proc[p]

\* the entries klog_snapshot of thread p has copied when its sort begins
CopiedBy(p) ==
  CopyRing(cpu_logs[proc[p].cpu_id], proc[p].buf, proc[p].max)

\* klog_snapshot of thread p returns in this step, with the count and the
\* records claim C28 gives
ReturnsMinCount(p) ==
  /\ Len(snaps') = Len(snaps) + 1
  /\ LET s == snaps'[Len(snaps')] IN
       /\ s.proc = p
       /\ s.ret = Min(proc[p].max, ValidInRings)
       /\ Len(s.buf) = Len(CopiedBy(p))
       /\ Range(s.buf) = Range(CopiedBy(p))

\* C28: with no concurrent writer, klog_snapshot(buf, max_entries) with
\* max_entries >= 0 returns min(max_entries, sum over the cores c of
\* min(head_c, KLOG_BUF_SIZE)), and the records returned are a permutation
\* of the entries copied.
C28_SnapshotReturnsMin ==
  [][\A p \in Procs :
       (SnapshotEnds(p) /\ proc[p].max >= 0) => ReturnsMinCount(p)]_vars

\* the same for the calls that collect at least one entry
SnapshotReturnsMinIfAny ==
  [][\A p \in Procs :
       (SnapshotEnds(p) /\ proc[p].max >= 0 /\ Len(CopiedBy(p)) > 0)
         => ReturnsMinCount(p)]_vars

\* the copyout of record i fails in this step of sys_getklog
CopyoutFails(p) ==
  /\ sys[p].pc = "gk_copy"
  /\ sys[p].i < sys[p].count
  /\ sys[p].i = sys[p].nok
  /\ sys'[p] # sys[p]

\* C29: when the copyout of record i fails in getklog, the call returns -1
\* at once, the records 0..i-1 stay in the destination and no further
\* record is copied; the staging page is released exactly once on this path
\* and on the success path.
C29_CopyoutFailure ==
  [][\A p \in Procs :
       /\ CopyoutFails(p)
            => /\ Len(sysh') = Len(sysh) + 1
               /\ sysh'[Len(sysh')].op = "getklog"
               /\ sysh'[Len(sysh')].ret = -1
               /\ sysh'[Len(sysh')].dst = SubSeq(sys[p].ents, 1, sys[p].i)
               /\ sysh'[Len(sysh')].freed = 1
               /\ sys'[p].pc = "user"
       /\ (/\ sys[p].pc = "gk_copy" /\ sys'[p].pc = "user"
           /\ ~CopyoutFails(p))
            => /\ sysh'[Len(sysh')].ret = sys[p].count
               /\ sysh'[Len(sysh')].dst = sys[p].ents
               /\ sysh'[Len(sysh')].freed = 1]_vars

\* a getklog call has failed at its second record, with the first in the
\* destination, and another getklog call has delivered two records
C29_Witness ==
  /\ \E k \in 1..Len(sysh) :
       /\ sysh[k].op = "getklog" /\ sysh[k].ret = -1
       /\ sysh[k].count >= 2 /\ Len(sysh[k].dst) = 1
       /\ sysh[k].freed = 1
  /\ \E k \in 1..Len(sysh) :
       /\ sysh[k].op = "getklog" /\ sysh[k].ret = 2
       /\ Len(sysh[k].dst) = 2 /\ sysh[k].freed = 1

\* the kinds of directive in template toks
KindsOf(toks) == {toks[n].k : n \in DOMAIN toks}

\* a template with "%%" or an unrecognized directive such as "%q", whose
\* other parts are literal text, %d and %s
VerbatimCase ==
  /\ stored # NoMsg
  /\ KindsOf(tmpl) \cap {"pct", "unk"} # {}
  /\ "x" \notin KindsOf(tmpl)

VerbatimWithinBuf ==
  (/\ VerbatimCase
   /\ Len(FormatBuf(TemplateFmt(tmpl), TemplateArgs(tmpl))) <= BUF_SIZE - 1)
    => stored = Take(FullRendering(tmpl), MSG_SIZE - 1)

\* the successor of a 32-bit counter value g kept in two's complement:
\* (g + 1) mod 2^32
Mod32Succ(g) ==
  CASE g = -1 -> 0
    [] g = 2147483647 -> (-2147483647) - 1
    [] OTHER -> g + 1

\* a < b as unsigned 32-bit values
ULess(a, b) ==
  \/ a >= 0 /\ b < 0
  \/ (a >= 0) = (b >= 0) /\ a < b

\* C31: the sequence counter is an unsigned 32-bit value that wraps with no
\* special handling: next_seq hands out the counter and leaves
\* (counter + 1) mod 2^32, so the record allocated after sequence 2^32 - 1
\* carries sequence 0, and every result of klog_snapshot is in ascending
\* order of the stored sequence values, also after the wrap.
C31_SeqWraps ==
  [][/\ \A p \in Procs :
          (proc[p].pc = "r_seq_inc" /\ proc'[p].pc = "r_fill")
            => /\ proc'[p].seq = global_seq
               /\ global_seq' = Mod32Succ(global_seq)
     /\ \A k \in 1..Len(snaps') : \A i, j \in 1..snaps'[k].ret :
          i < j => ULess(snaps'[k].buf[i].seq, snaps'[k].buf[j].seq)]_vars

\* the record allocated after the record of sequence 2^32 - 1 carries
\* sequence 0, and a snapshot has returned the two with sequence 0 first
C31_Witness ==
  /\ \E k \in 1..(Len(calls) - 1) :
       calls[k].seq = -1 /\ calls[k + 1].seq = 0 /\ calls[k + 1].done
  /\ global_seq = 1
  /\ \E s \in SnapSet : \E i, j \in 1..s.ret :
       i < j /\ s.buf[i].seq = 0 /\ s.buf[j].seq = -1

\* the decimal digits of |v|, most significant first, for any 32-bit v
AbsDigits(v) ==
  IF v >= 0 THEN DecStr(v)
  ELSE LET d == (10 - (v % 10)) % 10
           r == -((v + d) \div 10)
       IN  (IF r = 0 THEN <<>> ELSE DecStr(r)) \o <<digits[d + 1]>>

\* the text %d is meant to write for v
SignedText(v) == (IF v < 0 THEN <<"-">> ELSE <<>>) \o AbsDigits(v)

\* C32: for every signed 32-bit value v, snprintf_int called with room for
\* the whole text writes '-' when v is negative, followed by the decimal
\* digits of |v|.
C32_SignedDecimal ==
  (stored # NoMsg /\ tmpl.size > Len(SignedText(tmpl.val)))
    => stored = SignedText(tmpl.val)

\* every value but INT_MIN is converted as C32 states
C32_ExceptIntMin ==
  (stored # NoMsg /\ tmpl.size > Len(SignedText(tmpl.val)) /\ tmpl.val # INT_MIN)
    => stored = SignedText(tmpl.val)

\* a negative value of ten digits converted with room
C32_NegativeConverted ==
  /\ stored # NoMsg
  /\ tmpl.val = INT_MIN + 1
  /\ tmpl.size > Len(SignedText(tmpl.val))

\* C33: klog_snapshot never reads or writes buf outside the indices
\* 0..count-1: no call is in the sort loops with count = 0, where the loop
\* bounds count - 1 and count - i - 1 are taken as unsigned and the loops
\* compare and swap buf[0], buf[1], ... behind the entries collected.  A call
\* that collects nothing returns 0 instead.
C33_SnapshotStaysInBuf ==
  \A p \in Procs : proc[p].pc # "panic"

\* a call that collects one entry or more sorts inside buf and returns
\* the number collected
C33_NonEmptyStaysInBuf ==
  \A s \in SnapSet :
    /\ s.ret >= 1
    /\ s.ret <= s.max
    /\ Len(s.buf) = s.ret

\* the index of the last store into buf of a call: the terminator, stored
\* at index i after the format loop
TerminatorIndex(toks) == Len(FormatBuf(TemplateFmt(toks), TemplateArgs(toks)))

\* C34: every write klog_printf_internal and its helpers make into the
\* 64-byte staging buffer, the terminator included, lands at an index in
\* 0..63.
C34_WritesInsideBuf ==
  stored # NoMsg => TerminatorIndex(tmpl) \in 0..(BUF_SIZE - 1)

\* the writes stay inside buf for every template that does not reach an
\* unrecognized directive at index 62
C34_InsideButDefaultCase ==
  (stored # NoMsg /\ ~(\E k \in 1..Len(tmpl) :
      /\ tmpl[k].k = "unk"
      /\ Len(FormatBuf(TemplateFmt(SubSeq(tmpl, 1, k - 1)),
                        TemplateArgs(SubSeq(tmpl, 1, k - 1)))) = BUF_SIZE - 2))
    => TerminatorIndex(tmpl) \in 0..(BUF_SIZE - 1)

\* the valid entries of ring c, the positions SnapStart(head)..head-1, carry
\* strictly increasing sequence numbers in position order
RingAscending(c) ==
  LET h == cpu_logs[c].head IN
  \A i, j \in SnapStart(h)..(h - 1) :
    i < j => cpu_logs[c].entries[SlotOf(i)].seq < cpu_logs[c].entries[SlotOf(j)].seq

\* a record() call on core c has stored entry->seq in the slot at the
\* cursor and has not yet advanced the cursor
WritingAt(c) ==
  \E p \in Procs : proc[p].pc = "r_fill" /\ proc[p].cpu_id = c

\* C35 as stated: in every reachable state the valid entries of each ring
\* have strictly increasing sequence numbers in cursor-position order.
C35_RingAscendingAlways ==
  \A c \in CPUS : RingAscending(c)

\* C35: in every reachable state, the valid entries of each ring on which
\* no record() call is between its store of entry->seq and its increment of
\* the cursor have strictly increasing sequence numbers in cursor-position
\* order (before wraparound of the sequence counter).
C35_RingAscendingUnlessWriting ==
  \A c \in CPUS : ~WritingAt(c) => RingAscending(c)

\* a ring that has wrapped, with no record() call writing to it
C35_Witness ==
  \E c \in CPUS :
    /\ cpu_logs[c].head > KLOG_BUF_SIZE
    /\ ~WritingAt(c)
    /\ ring_lock[c] = NoProc

\* the budget of snapshot s is at least the number of valid entries the
\* rings held when s copied them
NoCut(s) ==
  LET RECURSIVE Sum(_)
      Sum(c) == IF c >= NCPU THEN 0
                ELSE Min(s.at[c], KLOG_BUF_SIZE) + Sum(c + 1)
  IN s.max >= Sum(0)

\* C36: with record() calls as the only operations that run concurrently,
\* every record whose record() call returned before a klog_snapshot call
\* was invoked is in the result of that call, provided max_entries is at
\* least the total number of valid entries and fewer than KLOG_BUF_SIZE
\* records were appended to the core of the record after it and before the
\* call copied the ring of that core.
C36_ReturnedRecordsVisible ==
  nops.clear = 0 =>
    \A s \in SnapSet : NoCut(s) =>
      \A c \in CPUS : \A k \in 1..s.seen[c] :
        s.at[c] - k < KLOG_BUF_SIZE => appended[c][k] \in Range(s.buf)

\* a snapshot not cut by its budget returned a record that was appended
\* before its invocation, a record appended to the same core between the
\* invocation and the copy of its ring, and the records of another core
C36_Witness ==
  /\ nops.clear = 0
  /\ \E s \in SnapSet : \E c, d \in CPUS :
       /\ NoCut(s)
       /\ c # d
       /\ s.seen[c] >= 1
       /\ s.at[c] > s.seen[c]
       /\ s.at[c] - s.seen[c] < KLOG_BUF_SIZE
       /\ s.at[d] >= 1

\* the getklog call of state pg, getklog(buf, 64) as ulog_tool issues it,
\* returns the record of core c at position head - 1 - after: the copy
\* of ring c, oldest entry first, gets as far as that position
Returned(c, after) ==
  TakenFrom(c, pg.head, Clamp(pg.max_entries)) >= RingRange(pg.head[c]) - after

\* C37: after a record() call returns, the next successful getklog(buf, 64)
\* call returns its record, as long as fewer than KLOG_BUF_SIZE records
\* have been appended to its core since.
C37_JustWrittenVisible ==
  (pg.ret # NotCalled /\ pg.ret >= 0 /\ pg.max_entries = DEV_BUDGET)
    => \A c \in CPUS : \A after \in {0, 1, RING_SIZE - 1} :
         pg.head[c] > after => Returned(c, after)

\* the record is returned whenever the rings hold no more valid entries
\* than one page takes
C37_VisibleWhenFits ==
  (/\ pg.ret # NotCalled /\ pg.ret >= 0 /\ pg.max_entries = DEV_BUDGET
   /\ SnapCount(0, 0, pg.head, RING_SIZE * NCPU) <= max_fit)
    => \A c \in CPUS : \A after \in {0, 1, RING_SIZE - 1} :
         pg.head[c] > after => Returned(c, after)

\* thread p holds a lock of the log
HoldsLock(p) == seq_lock = p \/ \E c \in CPUS : ring_lock[c] = p

LogUntouched ==
  /\ \A c \in CPUS : cpu_logs'[c].head = cpu_logs[c].head
  /\ global_seq' = global_seq

\* C39: a read() on /dev/klog that returns one or more whole records leaves
\* every head cursor and the sequence counter unchanged: no step of the
\* call, from the snapshot of klogdev_read to the return of sys_read,
\* changes them.
C39_ReadLeavesLogUnchanged ==
  [][\A p \in Procs :
       (sys[p].pc \in {"rd_snap", "rd_copy", "rd_log"}
          /\ (sys[p].pc = "rd_log" => sys[p].copied >= ENTRY_SIZE))
         => LogUntouched]_vars

\* klogdev_read itself changes no head cursor and not the sequence counter
C39_DeviceReadOnly ==
  [][\A p \in Procs : sys[p].pc \in {"rd_snap", "rd_copy"} => LogUntouched]_vars

\* a read that copied less than READ_LOG_MIN bytes returns without a
\* record() call
C39_ShortReadNotLogged ==
  \A p \in Procs : sys[p].pc = "rd_log" => sys[p].copied >= READ_LOG_MIN

ClearPcs == {"c_pushcli", "c_xchg", "c_reset"}

\* C40: klog_clear empties the log without resetting the sequence counter.
\* No record whose record() call had returned when a klog_clear call was
\* invoked is in the result of a klog_snapshot call invoked after that
\* klog_clear call returned; every sequence number allocated after a
\* klog_clear call returned is larger than the sequence number of every
\* record that had returned when it was invoked; and no step of klog_clear
\* changes the sequence counter.
C40_ClearEmptiesKeepsCounter ==
  [][/\ \A k \in 1..Len(snaps') : \A i \in 1..snaps'[k].ret :
          snaps'[k].buf[i].seq \notin snaps'[k].gone
     /\ \A p \in Procs :
          (proc[p].pc = "r_seq_inc" /\ proc'[p].pc = "r_fill")
            => \A g \in nops.gone : proc'[p].seq > g
     /\ \A p \in Procs :
          (proc[p].pc \in ClearPcs /\ proc'[p] # proc[p])
            => global_seq' = global_seq]_vars

\* a klog_clear call removed records, a record() call made after it
\* returned got a larger sequence number, and a klog_snapshot call invoked
\* after both returned that record
C40_Witness ==
  \E s \in SnapSet :
    /\ s.gone # {}
    /\ s.ret >= 1
    /\ \A i \in 1..s.ret : \A g \in s.gone : s.buf[i].seq > g
    /\ global_seq > 1

====
